---- MODULE Spec2Model ----
(***************************************************************************)
(* Model of typeLens: the TypeDiffer (tree x tree -> DiffResult), the      *)
(* TypeSerializer (type handle -> TypeNode tree), the two composed, and    *)
(* the program cache of the extension's TypeScriptServiceProvider.         *)
(*                                                                         *)
(* JavaScript values that may be undefined or of several primitive types   *)
(* are modelled as tagged records [t, v]: t is the typeof tag, v the text  *)
(* String(x) yields.  Strict equality (===) is record equality, except for *)
(* NaN, which is strictly equal to nothing (StrictEq).                     *)
(***************************************************************************)
EXTENDS Integers, Sequences, FiniteSets, TLC

VARIABLES
  pc,          \* differ: "ready" before the call of compare, "done" after it
  expected,    \* differ: first argument of compare
  actual,      \* differ: second argument of compare
  rootPath,    \* differ: third argument of compare
  result,      \* differ: the DiffResult returned
  checker,     \* serializer: the type checker, a map from type handle to what it answers
  cache,       \* serializer: the TypeSerializer's cache field
  request,     \* serializer: arguments of the latest serialize call
  serialized,  \* serializer: the SerializedType returned by the latest call
  calls,       \* serializer: number of serialize calls made on the instance
  formatted,   \* formatPath: the string returned, undefined before the call
  operands,    \* composition: the handles of the types serialized for compare
  programCache, \* provider: the programCache field, file name -> {program, timestamp}
  now,         \* provider: what Date.now() returns
  documents,   \* provider: the text of each open document
  lookup       \* provider: the latest getTypeAtPosition call and what answered it

differVars == <<pc, expected, actual, rootPath, result>>
serializerVars == <<checker, cache, request, serialized, calls>>
extensionVars == <<operands, programCache, now, documents, lookup>>
vars == <<pc, expected, actual, rootPath, result, checker, cache, request, serialized, calls,
          formatted, operands, programCache, now, documents, lookup>>

(* ---------------------------------------------------------------------- *)
(* JavaScript values                                                       *)
(* ---------------------------------------------------------------------- *)
Undefined == [t |-> "undefined", v |-> "undefined"]
Str(s) == [t |-> "string", v |-> s]
Num(s) == [t |-> "number", v |-> s]
Bool(s) == [t |-> "boolean", v |-> s]
Arr(s) == [t |-> "object", v |-> s]
Obj(o) == [t |-> "object", v |-> o]
NaN == Num("NaN")

\* a === b: the same type and the same value, NaN being equal to nothing
StrictEq(a, b) == a = b /\ a # NaN

\* String(x): coercion to a string
String(x) == Str(x.v)

\* truthiness of a string-or-undefined value, as in `if (node.name)`
Truthy(x) == x.t # "undefined" /\ x.v # ""

\* `children || []`
OrEmpty(c) == IF c.t = "undefined" THEN <<>> ELSE c.v

(* ---------------------------------------------------------------------- *)
(* TypeNode                                                                *)
(* ---------------------------------------------------------------------- *)
TypeNode(kind, name, value, children, optional, readonly) ==
  [kind |-> kind, name |-> name, value |-> value, children |-> children,
   optional |-> optional, readonly |-> readonly]

DiffKind ==
  [Missing |-> "missing", Extra |-> "extra", TypeMismatch |-> "type-mismatch",
   ValueMismatch |-> "value-mismatch", Modified |-> "modified", Added |-> "added",
   Removed |-> "removed", Identical |-> "identical"]

TypeDiff(path, kind, exp, act, message) ==
  [path |-> path, kind |-> kind, expected |-> exp, actual |-> act, message |-> message]

\* text of a loop index inside a template literal
IndexText == <<"0", "1", "2", "3", "4", "5", "6", "7">>

\* `[${i}]`, i counted from 0
IndexSegments == <<"[0]", "[1]", "[2]", "[3]", "[4]", "[5]", "[6]", "[7]">>
IndexSegment(i) == Str(IndexSegments[i + 1])

(* ---------------------------------------------------------------------- *)
(* TypeDiffer                                                              *)
(* ---------------------------------------------------------------------- *)
nodeToString(node) ==
  IF Truthy(node.name) THEN node.name
  ELSE IF node.value # Undefined THEN String(node.value)
  ELSE Str(node.kind)

\* new Map(children.map(c => [c.name, c])): keys in order of first insertion
RECURSIVE MapKeys(_)
MapKeys(children) ==
  IF children = <<>> THEN <<>>
  ELSE LET front == MapKeys(SubSeq(children, 1, Len(children) - 1))
           last == children[Len(children)].name
       IN IF \E i \in 1..Len(front) : front[i] = last THEN front
          ELSE Append(front, last)

\* Map.has(name)
MapHas(children, name) == \E i \in 1..Len(children) : children[i].name = name

\* Map.get(name): a later entry of the same key replaces the earlier one
MapGet(children, name) ==
  LET idx == {i \in 1..Len(children) : children[i].name = name}
  IN children[CHOOSE i \in idx : \A j \in idx : j <= i]

Max(a, b) == IF a >= b THEN a ELSE b

RECURSIVE compareNodes(_, _, _)
RECURSIVE compareByKind(_, _, _)
RECURSIVE compareObjects(_, _, _)
RECURSIVE compareArrays(_, _, _)

\* `${node.kind} with ${children.length} types`, for every kind of node
CompositeTexts ==
  [ primitive |-> <<"primitive with 0 types", "primitive with 1 types", "primitive with 2 types", "primitive with 3 types", "primitive with 4 types", "primitive with 5 types", "primitive with 6 types", "primitive with 7 types">>,
   literal |-> <<"literal with 0 types", "literal with 1 types", "literal with 2 types", "literal with 3 types", "literal with 4 types", "literal with 5 types", "literal with 6 types", "literal with 7 types">>,
   object |-> <<"object with 0 types", "object with 1 types", "object with 2 types", "object with 3 types", "object with 4 types", "object with 5 types", "object with 6 types", "object with 7 types">>,
   array |-> <<"array with 0 types", "array with 1 types", "array with 2 types", "array with 3 types", "array with 4 types", "array with 5 types", "array with 6 types", "array with 7 types">>,
   tuple |-> <<"tuple with 0 types", "tuple with 1 types", "tuple with 2 types", "tuple with 3 types", "tuple with 4 types", "tuple with 5 types", "tuple with 6 types", "tuple with 7 types">>,
   union |-> <<"union with 0 types", "union with 1 types", "union with 2 types", "union with 3 types", "union with 4 types", "union with 5 types", "union with 6 types", "union with 7 types">>,
   intersection |-> <<"intersection with 0 types", "intersection with 1 types", "intersection with 2 types", "intersection with 3 types", "intersection with 4 types", "intersection with 5 types", "intersection with 6 types", "intersection with 7 types">>,
   function |-> <<"function with 0 types", "function with 1 types", "function with 2 types", "function with 3 types", "function with 4 types", "function with 5 types", "function with 6 types", "function with 7 types">>,
   generic |-> <<"generic with 0 types", "generic with 1 types", "generic with 2 types", "generic with 3 types", "generic with 4 types", "generic with 5 types", "generic with 6 types", "generic with 7 types">>,
   conditional |-> <<"conditional with 0 types", "conditional with 1 types", "conditional with 2 types", "conditional with 3 types", "conditional with 4 types", "conditional with 5 types", "conditional with 6 types", "conditional with 7 types">>,
   template |-> <<"template with 0 types", "template with 1 types", "template with 2 types", "template with 3 types", "template with 4 types", "template with 5 types", "template with 6 types", "template with 7 types">>,
   indexed |-> <<"indexed with 0 types", "indexed with 1 types", "indexed with 2 types", "indexed with 3 types", "indexed with 4 types", "indexed with 5 types", "indexed with 6 types", "indexed with 7 types">>,
   unknown |-> <<"unknown with 0 types", "unknown with 1 types", "unknown with 2 types", "unknown with 3 types", "unknown with 4 types", "unknown with 5 types", "unknown with 6 types", "unknown with 7 types">>]
CompositeText(kind, n) == Str(CompositeTexts[kind][n + 1])

compareComposites(exp, act, path) ==
  LET expectedChildren == OrEmpty(exp.children)
      actualChildren == OrEmpty(act.children)
  IN IF Len(expectedChildren) # Len(actualChildren)
     THEN << TypeDiff(path, DiffKind.TypeMismatch,
                      CompositeText(exp.kind, Len(expectedChildren)),
                      CompositeText(act.kind, Len(actualChildren)),
                      <<exp.kind, " length mismatch">>) >>
     ELSE <<>>

\* the switch that leaves the generic case once the two names differ
compareByKind_GenericStopsAtName(exp, act, path) ==
  CASE exp.kind \in {"primitive", "unknown"} ->
         IF exp.name # act.name
         THEN << TypeDiff(path, DiffKind.TypeMismatch, exp.name, act.name,
                          <<"Type name mismatch: expected ", exp.name.v,
                            ", got ", act.name.v>>) >>
         ELSE <<>>
    [] exp.kind = "literal" ->
         IF exp.value # act.value
         THEN << TypeDiff(path, DiffKind.ValueMismatch, String(exp.value),
                          String(act.value),
                          <<"Literal value mismatch: expected ", exp.value.v,
                            ", got ", act.value.v>>) >>
         ELSE <<>>
    [] exp.kind = "object" -> compareObjects(exp, act, path)
    [] exp.kind \in {"array", "tuple"} -> compareArrays(exp, act, path)
    [] exp.kind \in {"union", "intersection"} -> compareComposites(exp, act, path)
    [] exp.kind = "generic" ->
         (IF exp.name # act.name
          THEN << TypeDiff(path, DiffKind.TypeMismatch, exp.name, act.name,
                           <<"Generic type mismatch: expected ", exp.name.v,
                             ", got ", act.name.v>>) >>
          ELSE compareArrays(exp, act, path))
    [] OTHER -> <<>>

\* the switch whose literal case compares the values after coercion to strings
compareByKind_LooseLiteral(exp, act, path) ==
  CASE exp.kind \in {"primitive", "unknown"} ->
         IF exp.name # act.name
         THEN << TypeDiff(path, DiffKind.TypeMismatch, exp.name, act.name,
                          <<"Type name mismatch: expected ", exp.name.v,
                            ", got ", act.name.v>>) >>
         ELSE <<>>
    [] exp.kind = "literal" ->
         IF String(exp.value) # String(act.value)
         THEN << TypeDiff(path, DiffKind.ValueMismatch, String(exp.value),
                          String(act.value),
                          <<"Literal value mismatch: expected ", exp.value.v,
                            ", got ", act.value.v>>) >>
         ELSE <<>>
    [] exp.kind = "object" -> compareObjects(exp, act, path)
    [] exp.kind \in {"array", "tuple"} -> compareArrays(exp, act, path)
    [] exp.kind \in {"union", "intersection"} -> compareComposites(exp, act, path)
    [] exp.kind = "generic" ->
         (IF exp.name # act.name
          THEN << TypeDiff(path, DiffKind.TypeMismatch, exp.name, act.name,
                           <<"Generic type mismatch: expected ", exp.name.v,
                             ", got ", act.name.v>>) >>
          ELSE <<>>) \o compareArrays(exp, act, path)
    [] OTHER -> <<>>

\* the switch on expected.kind, entered when the two kinds are equal
compareByKind(exp, act, path) ==
  CASE exp.kind \in {"primitive", "unknown"} ->
         IF exp.name # act.name
         THEN << TypeDiff(path, DiffKind.TypeMismatch, exp.name, act.name,
                          <<"Type name mismatch: expected ", exp.name.v,
                            ", got ", act.name.v>>) >>
         ELSE <<>>
    [] exp.kind = "literal" ->
         IF ~StrictEq(exp.value, act.value)
         THEN << TypeDiff(path, DiffKind.ValueMismatch, String(exp.value),
                          String(act.value),
                          <<"Literal value mismatch: expected ", exp.value.v,
                            ", got ", act.value.v>>) >>
         ELSE <<>>
    [] exp.kind = "object" -> compareObjects(exp, act, path)
    [] exp.kind \in {"array", "tuple"} -> compareArrays(exp, act, path)
    [] exp.kind \in {"union", "intersection"} -> compareComposites(exp, act, path)
    [] exp.kind = "generic" ->
         (IF exp.name # act.name
          THEN << TypeDiff(path, DiffKind.TypeMismatch, exp.name, act.name,
                           <<"Generic type mismatch: expected ", exp.name.v,
                             ", got ", act.name.v>>) >>
          ELSE <<>>) \o compareArrays(exp, act, path)
    [] OTHER -> <<>>

\* the kind mismatch diff
\* the kind mismatch diff with DiffKind.Modified
KindMismatch_Modified(exp, act, path) ==
  TypeDiff(path, DiffKind.Modified, nodeToString(exp), nodeToString(act),
           <<"Type mismatch: expected ", exp.kind, ", got ", act.kind>>)

KindMismatch(exp, act, path) ==
  TypeDiff(path, DiffKind.TypeMismatch, nodeToString(exp), nodeToString(act),
           <<"Type mismatch: expected ", exp.kind, ", got ", act.kind>>)

\* compareNodes without the return after the kind mismatch diff
compareNodes_NoReturn(exp, act, path) ==
  (IF exp.kind # act.kind THEN <<KindMismatch(exp, act, path)>> ELSE <<>>)
  \o compareByKind(exp, act, path)

compareNodes(exp, act, path) ==
  IF exp.kind # act.kind
  THEN <<KindMismatch(exp, act, path)>>
  ELSE compareByKind(exp, act, path)

\* body of the first loop of compareObjects for one expected property that
\* reports it missing although it is optional
missingStep_IgnoresOptional(expectedChildren, actualChildren, path, name) ==
  LET expectedProp == MapGet(expectedChildren, name)
  IN IF ~MapHas(actualChildren, name)
     THEN << TypeDiff(Append(path, name), DiffKind.Missing,
                      nodeToString(expectedProp), Undefined,
                      <<"Missing property: ", name.v>>) >>
     ELSE compareNodes(expectedProp, MapGet(actualChildren, name), Append(path, name))

\* body of the first loop of compareObjects, for one expected property
missingStep(expectedChildren, actualChildren, path, name) ==
  LET expectedProp == MapGet(expectedChildren, name)
  IN IF ~MapHas(actualChildren, name)
     THEN IF ~expectedProp.optional
          THEN << TypeDiff(Append(path, name), DiffKind.Missing,
                           nodeToString(expectedProp), Undefined,
                           <<"Missing property: ", name.v>>) >>
          ELSE <<>>
     ELSE compareNodes(expectedProp, MapGet(actualChildren, name), Append(path, name))

\* body of the second loop of compareObjects, for one actual property
extraStep(expectedChildren, actualChildren, path, name) ==
  LET actualProp == MapGet(actualChildren, name)
  IN IF ~MapHas(expectedChildren, name)
     THEN << TypeDiff(Append(path, name), DiffKind.Extra, Undefined,
                      nodeToString(actualProp), <<"Extra property: ", name.v>>) >>
     ELSE <<>>

\* compareObjects with its two loops exchanged
compareObjects_ExtrasFirst(exp, act, path) ==
  LET expectedChildren == OrEmpty(exp.children)
      actualChildren == OrEmpty(act.children)
      expectedNames == MapKeys(expectedChildren)
      actualNames == MapKeys(actualChildren)
      RECURSIVE missingLoop(_)
      missingLoop(i) ==
        IF i > Len(expectedNames) THEN <<>>
        ELSE missingStep(expectedChildren, actualChildren, path, expectedNames[i])
             \o missingLoop(i + 1)
      RECURSIVE extraLoop(_)
      extraLoop(i) ==
        IF i > Len(actualNames) THEN <<>>
        ELSE extraStep(expectedChildren, actualChildren, path, actualNames[i])
             \o extraLoop(i + 1)
  IN extraLoop(1) \o missingLoop(1)

compareObjects(exp, act, path) ==
  LET expectedChildren == OrEmpty(exp.children)
      actualChildren == OrEmpty(act.children)
      expectedNames == MapKeys(expectedChildren)
      actualNames == MapKeys(actualChildren)
      RECURSIVE missingLoop(_)
      missingLoop(i) ==
        IF i > Len(expectedNames) THEN <<>>
        ELSE missingStep(expectedChildren, actualChildren, path, expectedNames[i])
             \o missingLoop(i + 1)
      RECURSIVE extraLoop(_)
      extraLoop(i) ==
        IF i > Len(actualNames) THEN <<>>
        ELSE extraStep(expectedChildren, actualChildren, path, actualNames[i])
             \o extraLoop(i + 1)
  IN missingLoop(1) \o extraLoop(1)

\* body of the loop of compareArrays with the two one-sided cases exchanged
elementStep_Exchanged(expectedChildren, actualChildren, path, i) ==
  IF i >= Len(expectedChildren)
  THEN << TypeDiff(Append(path, IndexSegment(i)), DiffKind.Missing,
                   nodeToString(actualChildren[i + 1]), Undefined,
                   <<"Missing element at index ", IndexText[i + 1]>>) >>
  ELSE IF i >= Len(actualChildren)
  THEN << TypeDiff(Append(path, IndexSegment(i)), DiffKind.Extra, Undefined,
                   nodeToString(expectedChildren[i + 1]),
                   <<"Extra element at index ", IndexText[i + 1]>>) >>
  ELSE compareNodes(expectedChildren[i + 1], actualChildren[i + 1],
                    Append(path, IndexSegment(i)))

\* body of the loop of compareArrays that leaves the path as it is
elementStep_SamePath(expectedChildren, actualChildren, path, i) ==
  IF i >= Len(expectedChildren)
  THEN << TypeDiff(path, DiffKind.Extra, Undefined,
                   nodeToString(actualChildren[i + 1]),
                   <<"Extra element at index ", IndexText[i + 1]>>) >>
  ELSE IF i >= Len(actualChildren)
  THEN << TypeDiff(path, DiffKind.Missing,
                   nodeToString(expectedChildren[i + 1]), Undefined,
                   <<"Missing element at index ", IndexText[i + 1]>>) >>
  ELSE compareNodes(expectedChildren[i + 1], actualChildren[i + 1], path)

\* body of the loop of compareArrays, for index i counted from 0; a child is
\* undefined exactly when i is beyond the end of its list
elementStep(expectedChildren, actualChildren, path, i) ==
  IF i >= Len(expectedChildren)
  THEN << TypeDiff(Append(path, IndexSegment(i)), DiffKind.Extra, Undefined,
                   nodeToString(actualChildren[i + 1]),
                   <<"Extra element at index ", IndexText[i + 1]>>) >>
  ELSE IF i >= Len(actualChildren)
  THEN << TypeDiff(Append(path, IndexSegment(i)), DiffKind.Missing,
                   nodeToString(expectedChildren[i + 1]), Undefined,
                   <<"Missing element at index ", IndexText[i + 1]>>) >>
  ELSE compareNodes(expectedChildren[i + 1], actualChildren[i + 1],
                    Append(path, IndexSegment(i)))

\* compareArrays that gives up when a children field is absent
compareArrays_SkipsAbsent(exp, act, path) ==
  LET expectedChildren == OrEmpty(exp.children)
      actualChildren == OrEmpty(act.children)
      maxLength == Max(Len(expectedChildren), Len(actualChildren))
      RECURSIVE loop(_)
      loop(i) ==
        IF ~(i < maxLength) THEN <<>>
        ELSE elementStep(expectedChildren, actualChildren, path, i) \o loop(i + 1)
  IN IF exp.children = Undefined \/ act.children = Undefined THEN <<>> ELSE loop(0)

compareArrays(exp, act, path) ==
  LET expectedChildren == OrEmpty(exp.children)
      actualChildren == OrEmpty(act.children)
      maxLength == Max(Len(expectedChildren), Len(actualChildren))
      RECURSIVE loop(_)
      loop(i) ==
        IF ~(i < maxLength) THEN <<>>
        ELSE elementStep(expectedChildren, actualChildren, path, i) \o loop(i + 1)
  IN loop(0)

\* diffs.filter(d => pred(d)).length
CountKind(diffs, kinds) == Cardinality({i \in 1..Len(diffs) : diffs[i].kind \in kinds})

\* the summary that counts only the type mismatches as mismatches
Summary_TypeMismatchOnly(diffs) ==
  [missing |-> CountKind(diffs, {DiffKind.Missing}),
   extra |-> CountKind(diffs, {DiffKind.Extra}),
   mismatch |-> CountKind(diffs, {DiffKind.TypeMismatch})]

Summary(diffs) ==
  [missing |-> CountKind(diffs, {DiffKind.Missing}),
   extra |-> CountKind(diffs, {DiffKind.Extra}),
   mismatch |-> CountKind(diffs, {DiffKind.TypeMismatch, DiffKind.ValueMismatch})]

\* hasChanges taken from the missing and extra diffs alone
HasChanges_MissingOrExtra(diffs) ==
  CountKind(diffs, {DiffKind.Missing, DiffKind.Extra}) > 0

\* diffs.length > 0
HasChanges(diffs) == Len(diffs) > 0

compare(exp, act, path) ==
  LET diffs == compareNodes(exp, act, path)
  IN [diffs |-> diffs, hasChanges |-> HasChanges(diffs), summary |-> Summary(diffs)]

\* the methods a TypeDiffer has
Methods == {"compare", "compareNodes", "compareObjects", "compareArrays",
            "compareComposites", "nodeToString"}

(* ---------------------------------------------------------------------- *)
(* The type checker, as far as the serializer queries it                   *)
(* ---------------------------------------------------------------------- *)
\* what the checker answers about one type handle
NoType ==
  [flags |-> {},                  \* type.flags; isUnion() etc. test a flag
   types |-> <<>>,                \* members of a union or intersection
   value |-> Undefined,           \* value of a string or number literal
   intrinsicName |-> Undefined,   \* "true" or "false" of a boolean literal
   isArray |-> FALSE,             \* checker.isArrayType
   isTuple |-> FALSE,             \* checker.isTupleType
   typeArguments |-> Undefined,   \* TypeReference.typeArguments
   callSignatures |-> <<>>,       \* type.getCallSignatures()
   properties |-> <<>>,           \* checker.getPropertiesOfType
   aliasSymbol |-> Undefined,     \* type.aliasSymbol.name
   aliasTypeArguments |-> Undefined,
   text |-> "?"]                  \* checker.typeToString

\* a property symbol with the type getTypeOfSymbolAtLocation gives; optional
\* is (flags & SymbolFlags.Optional) !== 0
Symbol(name, type, optional, readonly) ==
  [name |-> name, type |-> type, optional |-> optional, readonly |-> readonly]
\* a parameter symbol: the compiler binds a parameter with the flag
\* FunctionScopedVariable alone, so (flags & SymbolFlags.Optional) !== 0 is
\* false whether or not its declaration carries a question token
Parameter(name, type, questionToken) ==
  [name |-> name, type |-> type, optional |-> FALSE, readonly |-> FALSE,
   questionToken |-> questionToken]
Signature(parameters, returnType) == [parameters |-> parameters, returnType |-> returnType]

(* ---------------------------------------------------------------------- *)
(* TypeSerializer                                                          *)
(* ---------------------------------------------------------------------- *)
EmptyCache == [seen |-> {}, depth |-> <<>>]

DefaultMaxDepth == 10

Plain(kind, name, value, children) == TypeNode(kind, name, value, children, FALSE, FALSE)

\* depth.set(type, d)
MapSet(m, k, x) == [h \in DOMAIN m \cup {k} |-> IF h = k THEN x ELSE m[h]]

\* depth.get(type) ?? 0
MapGetOr(m, k, default) == IF k \in DOMAIN m THEN m[k] ELSE default

RECURSIVE serializeType(_, _, _, _, _)
RECURSIVE serializeEach(_, _, _, _, _)
RECURSIVE serializeSymbols(_, _, _, _, _, _)

\* types.map(t => this.serializeType(t, depth, maxDepth, options)), the cache
\* passing from one element to the next
serializeEach(chk, types, depth, maxDepth, c) ==
  IF types = <<>> THEN [cache |-> c, nodes |-> <<>>]
  ELSE LET front == serializeEach(chk, SubSeq(types, 1, Len(types) - 1), depth, maxDepth, c)
           last == serializeType(chk, types[Len(types)], depth, maxDepth, front.cache)
       IN [cache |-> last.cache, nodes |-> Append(front.nodes, last.node)]

\* one child per property or parameter symbol:
\* {...this.serializeType(type, depth, ...), optional [, readonly]}: the
\* name of the serialized type is kept
serializeSymbols_KeepsName(chk, symbols, depth, maxDepth, c, withReadonly) ==
  IF symbols = <<>> THEN [cache |-> c, nodes |-> <<>>]
  ELSE LET front == serializeSymbols(chk, SubSeq(symbols, 1, Len(symbols) - 1), depth,
                                     maxDepth, c, withReadonly)
           sym == symbols[Len(symbols)]
           last == serializeType(chk, sym.type, depth, maxDepth, front.cache)
           child == IF withReadonly
                    THEN [last.node EXCEPT !.optional = sym.optional,
                                           !.readonly = sym.readonly]
                    ELSE [last.node EXCEPT !.optional = sym.optional]
       IN [cache |-> last.cache, nodes |-> Append(front.nodes, child)]

\* {...this.serializeType(type, depth, ...), name, optional [, readonly]}
serializeSymbols(chk, symbols, depth, maxDepth, c, withReadonly) ==
  IF symbols = <<>> THEN [cache |-> c, nodes |-> <<>>]
  ELSE LET front == serializeSymbols(chk, SubSeq(symbols, 1, Len(symbols) - 1), depth,
                                     maxDepth, c, withReadonly)
           sym == symbols[Len(symbols)]
           last == serializeType(chk, sym.type, depth, maxDepth, front.cache)
           child == IF withReadonly
                    THEN [last.node EXCEPT !.name = Str(sym.name),
                                           !.optional = sym.optional,
                                           !.readonly = sym.readonly]
                    ELSE [last.node EXCEPT !.name = Str(sym.name),
                                           !.optional = sym.optional]
       IN [cache |-> last.cache, nodes |-> Append(front.nodes, child)]

isFunctionType(chk, type) == Len(chk[type].callSignatures) > 0
isConditionalType(chk, type) == "Conditional" \in chk[type].flags
isTemplateLiteralType(chk, type) == "TemplateLiteral" \in chk[type].flags
isIndexedAccessType(chk, type) == "IndexedAccess" \in chk[type].flags

serializeFunctionType(chk, type, depth, maxDepth, c) ==
  LET signatures == chk[type].callSignatures
      signature == signatures[1]
      params == serializeSymbols(chk, signature.parameters, depth + 1, maxDepth, c, FALSE)
      ret == serializeType(chk, signature.returnType, depth + 1, maxDepth, params.cache)
  IN IF Len(signatures) = 0
     THEN [cache |-> c, node |-> Plain("unknown", Str("function"), Undefined, Undefined)]
     ELSE [cache |-> ret.cache,
           node |-> Plain("function", Str("function"), Undefined,
                          Arr(params.nodes \o << [ret.node EXCEPT !.name = Str("return")] >>))]

serializeConditionalType(chk, type) ==
  Plain("conditional", Str(chk[type].text), Undefined, Undefined)
serializeTemplateLiteralType(chk, type) ==
  Plain("template", Str(chk[type].text), Undefined, Undefined)
serializeIndexedAccessType(chk, type) ==
  Plain("indexed", Str(chk[type].text), Undefined, Undefined)

\* the primitive flags in the order they are tested, with the node each gives
PrimitiveFlags ==
  << <<"String", "primitive", "string">>, <<"Number", "primitive", "number">>,
     <<"Boolean", "primitive", "boolean">>, <<"Null", "primitive", "null">>,
     <<"Undefined", "primitive", "undefined">>, <<"Void", "primitive", "void">>,
     <<"Any", "primitive", "any">>, <<"Unknown", "unknown", "unknown">>,
     <<"Never", "primitive", "never">> >>

\* the conditions of the if statements of serializeType, in program order
Tests(chk, type) ==
  LET t == chk[type]
  IN << "Union" \in t.flags,
        "Intersection" \in t.flags,
        "StringLiteral" \in t.flags,
        "NumberLiteral" \in t.flags,
        "BooleanLiteral" \in t.flags,
        \E i \in 1..Len(PrimitiveFlags) : PrimitiveFlags[i][1] \in t.flags,
        t.isArray,
        t.isTuple,
        isFunctionType(chk, type),
        isConditionalType(chk, type),
        isTemplateLiteralType(chk, type),
        isIndexedAccessType(chk, type),
        Len(t.properties) > 0,
        /\ t.aliasSymbol.t # "undefined"
        /\ t.aliasTypeArguments.t # "undefined"
        /\ Len(t.aliasTypeArguments.v) > 0 >>

\* the last if statement whose condition holds
FirstMatch_LastWins(tests) ==
  IF \A i \in 1..Len(tests) : ~tests[i] THEN 0
  ELSE CHOOSE i \in 1..Len(tests) : tests[i] /\ \A j \in (i + 1)..Len(tests) : ~tests[j]

\* the first if statement whose condition holds; 0 when none does
FirstMatch(tests) ==
  IF \A i \in 1..Len(tests) : ~tests[i] THEN 0
  ELSE CHOOSE i \in 1..Len(tests) : tests[i] /\ \A j \in 1..(i - 1) : ~tests[j]

\* the exits of a serializeType that lets one more level through
Branch_DepthOffByOne(chk, type, depth, maxDepth, c) ==
  IF depth > maxDepth + 1 THEN "depth"
  ELSE IF type \in c.seen /\ depth - MapGetOr(c.depth, type, 0) > 2 THEN "circular"
  ELSE ToString(FirstMatch(Tests(chk, type)))

\* the exit serializeType takes: "depth" and "circular" for the two early
\* returns, else the number of the first if statement that matches
Branch(chk, type, depth, maxDepth, c) ==
  IF depth > maxDepth THEN "depth"
  ELSE IF type \in c.seen /\ depth - MapGetOr(c.depth, type, 0) > 2 THEN "circular"
  ELSE ToString(FirstMatch(Tests(chk, type)))

serializeType(chk, type, depth, maxDepth, c) ==
  LET branch == Branch(chk, type, depth, maxDepth, c)
      c1 == [seen |-> c.seen \cup {type}, depth |-> MapSet(c.depth, type, depth)]
      t == chk[type]
      primitive ==
        PrimitiveFlags[CHOOSE i \in 1..Len(PrimitiveFlags) :
                         /\ PrimitiveFlags[i][1] \in t.flags
                         /\ \A j \in 1..(i - 1) : PrimitiveFlags[j][1] \notin t.flags]
      types == CASE branch \in {"1", "2"} -> t.types
                 [] branch = "7" ->
                      \* typeArgs?.[0], a single child when there is an element type
                      IF Len(OrEmpty(t.typeArguments)) > 0
                      THEN <<OrEmpty(t.typeArguments)[1]>> ELSE <<>>
                 [] branch = "8" -> OrEmpty(t.typeArguments)
                 [] branch = "14" -> t.aliasTypeArguments.v
      each == serializeEach(chk, types, depth + 1, maxDepth, c1)
      props == serializeSymbols(chk, t.properties, depth + 1, maxDepth, c1, TRUE)
  IN CASE branch = "depth" ->
            [cache |-> c, node |-> Plain("unknown", Str("..."), Undefined, Undefined)]
       [] branch = "circular" ->
            [cache |-> c, node |-> Plain("unknown", Str("[Circular]"), Undefined, Undefined)]
       [] branch = "1" ->
            [cache |-> each.cache, node |-> Plain("union", Undefined, Undefined, Arr(each.nodes))]
       [] branch = "2" ->
            [cache |-> each.cache,
             node |-> Plain("intersection", Undefined, Undefined, Arr(each.nodes))]
       [] branch \in {"3", "4"} ->
            [cache |-> c1, node |-> Plain("literal", Undefined, t.value, Undefined)]
       [] branch = "5" ->
            [cache |-> c1,
             node |-> Plain("literal", Undefined,
                            IF t.intrinsicName = Str("true") THEN Bool("true")
                            ELSE Bool("false"),
                            Undefined)]
       [] branch = "6" ->
            [cache |-> c1, node |-> Plain(primitive[2], Str(primitive[3]), Undefined, Undefined)]
       [] branch = "7" ->
            [cache |-> each.cache, node |-> Plain("array", Undefined, Undefined, Arr(each.nodes))]
       [] branch = "8" ->
            [cache |-> each.cache, node |-> Plain("tuple", Undefined, Undefined, Arr(each.nodes))]
       [] branch = "9" -> serializeFunctionType(chk, type, depth, maxDepth, c1)
       [] branch = "10" -> [cache |-> c1, node |-> serializeConditionalType(chk, type)]
       [] branch = "11" -> [cache |-> c1, node |-> serializeTemplateLiteralType(chk, type)]
       [] branch = "12" -> [cache |-> c1, node |-> serializeIndexedAccessType(chk, type)]
       [] branch = "13" ->
            [cache |-> props.cache, node |-> Plain("object", Undefined, Undefined, Arr(props.nodes))]
       [] branch = "14" ->
            [cache |-> each.cache,
             node |-> Plain("generic", t.aliasSymbol, Undefined, Arr(each.nodes))]
       [] branch = "0" ->
            [cache |-> c1, node |-> Plain("unknown", Str(t.text), Undefined, Undefined)]

\* serialize that goes on with the cache of the calls before
serialize_KeepsCache(chk, type, sourceFile, position, options, thisCache) ==
  LET maxDepth == IF options.hasMaxDepth THEN options.maxDepth ELSE DefaultMaxDepth
      r == serializeType(chk, type, 0, maxDepth, thisCache)
  IN [serialized |-> [displayName |-> chk[type].text, typeNode |-> r.node,
                      filePath |-> sourceFile,
                      position |-> IF position.t = "undefined" THEN Undefined
                                   ELSE Obj([line |-> position.v.line,
                                             character |-> position.v.character])],
      cache |-> r.cache]

\* serialize(type, sourceFile, position, options) on an instance whose cache
\* field holds thisCache: the field is replaced by a new cache, then the type
\* is walked from depth 0.  A source file is told by its fileName, undefined
\* when none is passed; a position is undefined or a {line, character}
\* object.  The id field of the result, a fresh string made of the clock and
\* a random number, is left out.
serialize(chk, type, sourceFile, position, options, thisCache) ==
  LET reset == [thisCache EXCEPT !.seen = {}, !.depth = <<>>]
      maxDepth == IF options.hasMaxDepth THEN options.maxDepth ELSE DefaultMaxDepth
      r == serializeType(chk, type, 0, maxDepth, reset)
  IN [serialized |-> [displayName |-> chk[type].text, typeNode |-> r.node,
                      filePath |-> sourceFile,
                      position |-> IF position.t = "undefined" THEN Undefined
                                   ELSE Obj([line |-> position.v.line,
                                             character |-> position.v.character])],
      cache |-> r.cache]

\* the request and result fields before the first call
NoRequest == [type |-> "", options |-> [hasMaxDepth |-> FALSE, maxDepth |-> 0,
                                       includeSignatures |-> FALSE,
                                       expandAliases |-> FALSE]]
NoSerialized == [displayName |-> "", typeNode |-> Plain("unknown", Undefined, Undefined,
                                                        Undefined),
                 filePath |-> Undefined, position |-> Undefined]

\* a ts.Program, told apart by the text it was created from, and null
Program(content) == [created |-> TRUE, content |-> content]
NullProgram == [created |-> FALSE, content |-> ""]

\* the provider before its first call, and no type serialized for compare
NoLookup == [fileName |-> "", content |-> "", position |-> [line |-> 0, character |-> 0],
             program |-> NullProgram, type |-> NoSerialized]
ExtensionIdle ==
  /\ operands = <<>>
  /\ programCache = <<>>
  /\ now = 0
  /\ documents = <<>>
  /\ lookup = NoLookup

(* ---------------------------------------------------------------------- *)
(* Inputs of compare: bounded sets of TypeNode trees                       *)
(* ---------------------------------------------------------------------- *)
MaxChildren == 2
MaxNesting == 1

SeqsUpTo(S, n) == UNION {[1..k -> S] : k \in 0..n}

Leaf(kind, name, value) == TypeNode(kind, name, value, Undefined, FALSE, FALSE)
Prop(kind, name, value, optional, readonly) ==
  TypeNode(kind, name, value, Undefined, optional, readonly)

\* childless nodes of every shape the leaf branches of compareNodes distinguish
LeafKinds == {"primitive", "unknown", "literal", "conditional"}
LeafNames == {Undefined, Str(""), Str("string"), Str("number")}
LeafValues == {Undefined, Str("42"), Num("42"), Bool("true"), NaN}
RichLeaves == {Leaf(k, n, v) : k \in LeafKinds, n \in LeafNames, v \in LeafValues}

\* children used below composite nodes: two properties, one of them also in
\* an optional and readonly variant, and an unnamed literal
Members ==
  {Prop("primitive", Str("id"), Undefined, FALSE, FALSE),
   Prop("primitive", Str("name"), Undefined, FALSE, FALSE),
   Prop("primitive", Str("name"), Undefined, TRUE, TRUE),
   Leaf("literal", Undefined, Str("42"))}
\* children of the nodes that are nested: a required and an optional property
CoreMembers ==
  {Prop("primitive", Str("id"), Undefined, FALSE, FALSE),
   Prop("literal", Str("name"), Str("42"), TRUE, FALSE)}

\* kind and name of the composite nodes
Heads ==
  {<<"object", Undefined>>, <<"array", Undefined>>, <<"tuple", Undefined>>,
   <<"union", Undefined>>, <<"intersection", Undefined>>, <<"function", Str("function")>>,
   <<"generic", Str("Box")>>, <<"generic", Str("Partial")>>}

\* the nodes with head h and at most MaxChildren children out of S, the
\* children field absent included
Flat(h, S) ==
  {TypeNode(h[1], h[2], Undefined, c, FALSE, FALSE) :
     c \in {Undefined} \cup {Arr(q) : q \in SeqsUpTo(S, MaxChildren)}}

\* every pair of such nodes of the same kind; pairs of different kinds are
\* among CorePairs
FlatPairs == UNION {Flat(h, Members) \X Flat(g, Members) : <<h, g>> \in
                      {hg \in Heads \X Heads : hg[1][1] = hg[2][1]}}

CoreHeads ==
  {<<"object", Undefined>>, <<"array", Undefined>>, <<"union", Undefined>>,
   <<"generic", Str("Box")>>}
CoreNodes == CoreMembers \cup UNION {Flat(h, CoreMembers) : h \in CoreHeads}
CorePairs == CoreNodes \X CoreNodes

\* a pair of parents around a pair of nodes; an object parent names its child
Named(node, name) == [node EXCEPT !.name = Str(name)]
Parent(kind, name, children) == TypeNode(kind, name, Undefined, Arr(children), FALSE, FALSE)
Primitive(name) == Leaf("primitive", Str(name), Undefined)
Literal(value) == Leaf("literal", Undefined, Str(value))
Wrappers == {"object", "array", "tuple", "generic", "mixed"}
Wrap(w, p) ==
  CASE w = "object" -> << Parent("object", Undefined, <<Named(p[1], "profile")>>),
                          Parent("object", Undefined, <<Named(p[2], "profile")>>) >>
    [] w = "array" -> << Parent("array", Undefined, <<p[1]>>),
                         Parent("array", Undefined, <<p[2]>>) >>
    [] w = "tuple" -> << Parent("tuple", Undefined, <<Literal("a"), p[1]>>),
                         Parent("tuple", Undefined, <<Literal("b"), p[2]>>) >>
    [] w = "generic" -> << Parent("generic", Str("Box"), <<p[1]>>),
                           Parent("generic", Str("Partial"), <<p[2]>>) >>
    [] w = "mixed" -> << Parent("object", Undefined, <<Named(p[1], "profile")>>),
                         Parent("array", Undefined, <<p[2]>>) >>

\* the core pairs below at most d parents
RECURSIVE Nested(_)
Nested(d) ==
  IF d = 0 THEN CorePairs
  ELSE LET below == Nested(d - 1)
       IN below \cup {Wrap(w, p) : w \in Wrappers, p \in below}

\* the pairs the repository's tests of the differ compare
Object(children) == Parent("object", Undefined, children)
Union(children) == Parent("union", Undefined, children)
Tuple(children) == Parent("tuple", Undefined, children)
TestMissingProperty == << Object(<<Primitive("id"), Primitive("name")>>),
                          Object(<<Primitive("id")>>) >>
TestSummary == << Object(<<Primitive("id"), Primitive("name"), Primitive("age")>>),
                  Object(<<Primitive("id"), Primitive("email")>>) >>
TestUnionMissing == << Union(<<Literal("a"), Literal("b"), Literal("c")>>),
                       Union(<<Literal("a"), Literal("b")>>) >>
TestUnionBoth == << Union(<<Literal("a"), Literal("b"), Literal("c")>>),
                    Union(<<Literal("a"), Literal("d"), Literal("e")>>) >>
TestTupleLength == << Tuple(<<Primitive("string"), Primitive("number")>>),
                      Tuple(<<Primitive("string")>>) >>
TestFunctionSignature ==
  << Parent("function", Str("function"), <<Primitive("id"), Primitive("return")>>),
     Parent("function", Str("function"),
            <<Primitive("id"), Primitive("name"), Primitive("return")>>) >>
TestPropertyMismatch ==
  << Object(<<Named(Object(<<Primitive("number")>>), "age")>>),
     Object(<<Named(Object(<<Primitive("string")>>), "age")>>) >>
TestPairs == {TestMissingProperty, TestSummary, TestUnionMissing, TestUnionBoth,
              TestTupleLength, TestFunctionSignature, TestPropertyMismatch}

\* an object with one property against a primitive: nodes of different kinds
\* at the root, which none of the tests compares
ObjectAgainstPrimitive == << Object(<<Primitive("a")>>), Primitive("string") >>
RootKindPairs == {ObjectAgainstPrimitive}

\* pairs of objects of two properties each, among them properties of one name
\* and different literal types, and a property whose literal value is NaN
OrderMembers ==
  {Primitive("id"), Primitive("email"),
   Prop("literal", Str("name"), Str("42"), FALSE, FALSE),
   Prop("literal", Str("name"), Str("43"), FALSE, FALSE),
   Prop("literal", Str("x"), NaN, FALSE, FALSE)}
OrderPairs ==
  {<<Object(e), Object(a)>> : e \in [1..2 -> OrderMembers], a \in [1..2 -> OrderMembers]}

\* pairs of generics of two type arguments each, the arguments of the one
\* exchanged in the other: primitives, conditional, template and indexed
\* nodes, functions, unions of the same length, and objects of which one has
\* an optional property more
SwapMembers ==
  {Primitive("string"), Primitive("number"),
   Leaf("conditional", Str("A"), Undefined), Leaf("conditional", Str("B"), Undefined),
   Leaf("template", Str("S"), Undefined), Leaf("template", Str("T"), Undefined),
   Leaf("indexed", Str("I"), Undefined), Leaf("indexed", Str("J"), Undefined),
   TestFunctionSignature[1], TestFunctionSignature[2],
   Union(<<Literal("a"), Literal("b")>>), Union(<<Literal("a"), Literal("c")>>),
   Object(<<Primitive("id")>>),
   Object(<<Primitive("id"), Prop("primitive", Str("name"), Undefined, TRUE, FALSE)>>)}
SwapPairs ==
  {<<Parent("generic", Str("Box"), <<x, y>>), Parent("generic", Str(n), <<y, x>>)>> :
     x \in SwapMembers, y \in SwapMembers, n \in {"Box", "Partial"}}

InputPairs ==
  (RichLeaves \X RichLeaves) \cup FlatPairs \cup Nested(MaxNesting) \cup TestPairs
  \cup RootKindPairs \cup OrderPairs \cup SwapPairs

\* the path argument: its default, and a path given by the caller
RootPaths == {<<>>, <<Str("user")>>}

NoResult == [diffs |-> <<>>, hasChanges |-> FALSE,
             summary |-> [missing |-> 0, extra |-> 0, mismatch |-> 0]]

(* ---------------------------------------------------------------------- *)
(* The differ as a state machine: one call of compare                      *)
(* ---------------------------------------------------------------------- *)
Init ==
  /\ pc = "ready"
  /\ \E p \in InputPairs :
       /\ expected = p[1]
       /\ actual = p[2]
       /\ rootPath \in IF p \in CorePairs \cup TestPairs \cup RootKindPairs THEN RootPaths ELSE {<<>>}
  /\ result = NoResult
  /\ checker = <<>>
  /\ cache = EmptyCache
  /\ request = NoRequest
  /\ serialized = NoSerialized
  /\ calls = 0
  /\ formatted = Undefined
  /\ ExtensionIdle

Compare ==
  /\ pc = "ready"
  /\ result' = compare(expected, actual, rootPath)
  /\ pc' = "done"
  /\ UNCHANGED <<expected, actual, rootPath, formatted>>
  /\ UNCHANGED serializerVars
  /\ UNCHANGED extensionVars

Next == Compare

Spec == Init /\ [][Next]_vars

(* ---------------------------------------------------------------------- *)
(* Inputs of serialize: checkers over small type graphs                    *)
(* ---------------------------------------------------------------------- *)
MaxDepthOption == 6
MaxCalls == 2

StringType == [NoType EXCEPT !.flags = {"String"}, !.text = "string"]
UndefinedType == [NoType EXCEPT !.flags = {"Undefined"}, !.text = "undefined"]

\* type Node = { value: string; next?: Node }, compiled without
\* strictNullChecks: the type of next is Node itself
LinkedList ==
  [h \in {"Node", "string"} |->
     IF h = "string" THEN StringType
     ELSE [NoType EXCEPT !.text = "Node",
             !.properties = << Symbol("value", "string", FALSE, FALSE),
                               Symbol("next", "Node", TRUE, FALSE) >>]]

\* the same declaration compiled with strictNullChecks: the type of next
\* is the union Node | undefined
LinkedListStrict ==
  [h \in {"Node", "string", "undefined", "Node | undefined"} |->
     CASE h = "string" -> StringType
       [] h = "undefined" -> UndefinedType
       [] h = "Node | undefined" ->
            [NoType EXCEPT !.flags = {"Union"}, !.types = <<"undefined", "Node">>,
                           !.text = "Node | undefined"]
       [] h = "Node" ->
            [NoType EXCEPT !.text = "Node",
               !.properties = << Symbol("value", "string", FALSE, FALSE),
                                 Symbol("next", "Node | undefined", TRUE, FALSE) >>]]

\* type A = { b: B }; type B = { a: A }
Mutual ==
  [h \in {"A", "B"} |->
     IF h = "A"
     THEN [NoType EXCEPT !.text = "A", !.properties = << Symbol("b", "B", FALSE, FALSE) >>]
     ELSE [NoType EXCEPT !.text = "B", !.properties = << Symbol("a", "A", FALSE, FALSE) >>]]

\* type Handler = (id: string) => number;
\* type User = { id: number; handler: Handler }; type Team = { lead: User }
NumberType == [NoType EXCEPT !.flags = {"Number"}, !.text = "number"]
Aliases ==
  [h \in {"Team", "User", "Handler", "string", "number"} |->
     CASE h = "string" -> StringType
       [] h = "number" -> NumberType
       [] h = "Handler" ->
            [NoType EXCEPT !.text = "Handler", !.aliasSymbol = Str("Handler"),
               !.callSignatures =
                  << Signature(<< Parameter("id", "string", FALSE) >>, "number") >>]
       [] h = "User" ->
            [NoType EXCEPT !.text = "User", !.aliasSymbol = Str("User"),
               !.properties = << Symbol("id", "number", FALSE, FALSE),
                                 Symbol("handler", "Handler", FALSE, FALSE) >>]
       [] h = "Team" ->
            [NoType EXCEPT !.text = "Team", !.aliasSymbol = Str("Team"),
               !.properties = << Symbol("lead", "User", FALSE, FALSE) >>]]

\* types that pass more than one test of serializeType, and one type for
\* each of the remaining tests:
\*   declare const Callable: { (id: string, count?: number): null; (): string;
\*                             version: string };
\*   type Thunk = () => number;       type Both = Thunk & Callable;
\*   type Pair<T> = { first: T; readonly second?: number };
\*   type Empty<T> = {};              const circle = "circle" as const;
\* boolean is the union false | true, arrays and tuples have properties;
\* compiled without strictNullChecks, as the serializer's tests compile, so
\* an optional member has the type it is declared with
Flagged(flag, text) == [NoType EXCEPT !.flags = {flag}, !.text = text]
Overlaps ==
  [h \in {"string", "number", "null", "unknown", "boolean", "false", "true", "circle",
          "Callable", "Thunk", "Both", "Pair<string>", "Empty<string>", "string[]",
          "[string, number]", "Cond", "Template", "Indexed", "bigint"} |->
     CASE h = "string" -> StringType
       [] h = "number" -> NumberType
       [] h = "null" -> Flagged("Null", "null")
       [] h = "unknown" -> Flagged("Unknown", "unknown")
       [] h = "boolean" ->
            [NoType EXCEPT !.flags = {"Boolean", "Union"}, !.types = <<"false", "true">>,
                           !.text = "boolean"]
       [] h = "false" ->
            [NoType EXCEPT !.flags = {"BooleanLiteral"}, !.intrinsicName = Str("false"),
                           !.text = "false"]
       [] h = "true" ->
            [NoType EXCEPT !.flags = {"BooleanLiteral"}, !.intrinsicName = Str("true"),
                           !.text = "true"]
       [] h = "circle" ->
            [NoType EXCEPT !.flags = {"StringLiteral"}, !.value = Str("circle"),
                           !.text = "\"circle\""]
       [] h = "Callable" ->
            [NoType EXCEPT !.text = "Callable",
               !.callSignatures =
                  << Signature(<< Parameter("id", "string", FALSE),
                                  Parameter("count", "number", TRUE) >>, "null"),
                     Signature(<<>>, "string") >>,
               !.properties = << Symbol("version", "string", FALSE, FALSE) >>]
       [] h = "Thunk" ->
            [NoType EXCEPT !.text = "Thunk", !.aliasSymbol = Str("Thunk"),
               !.callSignatures = << Signature(<<>>, "number") >>]
       [] h = "Both" ->
            [NoType EXCEPT !.flags = {"Intersection"}, !.types = <<"Thunk", "Callable">>,
               !.text = "Both", !.aliasSymbol = Str("Both"),
               !.callSignatures = << Signature(<<>>, "number") >>,
               !.properties = << Symbol("version", "string", FALSE, FALSE) >>]
       [] h = "Pair<string>" ->
            [NoType EXCEPT !.text = "Pair<string>", !.aliasSymbol = Str("Pair"),
               !.aliasTypeArguments = Arr(<<"string">>),
               !.properties = << Symbol("first", "string", FALSE, FALSE),
                                 Symbol("second", "number", TRUE, TRUE) >>]
       [] h = "Empty<string>" ->
            [NoType EXCEPT !.text = "Empty<string>", !.aliasSymbol = Str("Empty"),
               !.aliasTypeArguments = Arr(<<"string">>)]
       [] h = "string[]" ->
            [NoType EXCEPT !.text = "string[]", !.isArray = TRUE,
               !.typeArguments = Arr(<<"string">>),
               !.properties = << Symbol("length", "number", FALSE, FALSE) >>]
       [] h = "[string, number]" ->
            [NoType EXCEPT !.text = "[string, number]", !.isTuple = TRUE,
               !.typeArguments = Arr(<<"string", "number">>),
               !.properties = << Symbol("length", "number", FALSE, FALSE) >>]
       [] h = "Cond" -> Flagged("Conditional", "T extends string ? 1 : 2")
       [] h = "Template" -> Flagged("TemplateLiteral", "Uppercase<T>")
       [] h = "Indexed" -> Flagged("IndexedAccess", "T[K]")
       [] h = "bigint" -> Flagged("BigInt", "bigint")]

\* object types without a cycle:
\*   interface Shape { kind: "circle"; radius: number; readonly id: string;
\*                     label?: string }
\*   interface Person { age: number; name: string }
\*   interface PersonText { age: string; name: string }
\*   interface Deep { name: string; a: { b: { c: { label: string;
\*                                                 tags: string[] } } } }
\* string is met at depth 1 (name), at depth 4 (label) and at depth 5 (the
\* element type of tags); compiled without strictNullChecks, so the type of
\* label in Shape is string
ObjectType(text, properties) == [NoType EXCEPT !.text = text, !.properties = properties]
Objects ==
  [h \in {"string", "number", "circle", "string[]", "Shape", "Person", "PersonText",
          "Deep", "L1", "L2", "L3"} |->
     CASE h = "string" -> StringType
       [] h = "number" -> NumberType
       [] h = "circle" -> Overlaps["circle"]
       [] h = "string[]" -> Overlaps["string[]"]
       [] h = "Shape" ->
            ObjectType("Shape", << Symbol("kind", "circle", FALSE, FALSE),
                                   Symbol("radius", "number", FALSE, FALSE),
                                   Symbol("id", "string", FALSE, TRUE),
                                   Symbol("label", "string", TRUE, FALSE) >>)
       [] h = "Person" ->
            ObjectType("Person", << Symbol("age", "number", FALSE, FALSE),
                                    Symbol("name", "string", FALSE, FALSE) >>)
       [] h = "PersonText" ->
            ObjectType("PersonText", << Symbol("age", "string", FALSE, FALSE),
                                        Symbol("name", "string", FALSE, FALSE) >>)
       [] h = "Deep" ->
            ObjectType("Deep", << Symbol("name", "string", FALSE, FALSE),
                                  Symbol("a", "L1", FALSE, FALSE) >>)
       [] h = "L1" -> ObjectType("{ b: { c: { label: string; tags: string[]; }; }; }",
                                 << Symbol("b", "L2", FALSE, FALSE) >>)
       [] h = "L2" -> ObjectType("{ c: { label: string; tags: string[]; }; }",
                                 << Symbol("c", "L3", FALSE, FALSE) >>)
       [] h = "L3" -> ObjectType("{ label: string; tags: string[]; }",
                                 << Symbol("label", "string", FALSE, FALSE),
                                    Symbol("tags", "string[]", FALSE, FALSE) >>)]

Checkers == {LinkedList, LinkedListStrict, Mutual, Aliases, Overlaps, Objects}

Options ==
  [hasMaxDepth : {TRUE}, maxDepth : 0..MaxDepthOption,
   includeSignatures : BOOLEAN, expandAliases : BOOLEAN]
  \cup [hasMaxDepth : {FALSE}, maxDepth : {0},
        includeSignatures : BOOLEAN, expandAliases : BOOLEAN]

(* ---------------------------------------------------------------------- *)
(* The serializer as a state machine: calls of serialize on one instance   *)
(* ---------------------------------------------------------------------- *)
SerializerInit ==
  /\ checker \in Checkers
  /\ cache = EmptyCache
  /\ request = NoRequest
  /\ serialized = NoSerialized
  /\ calls = 0
  /\ pc = "idle"
  /\ expected = NoSerialized.typeNode
  /\ actual = NoSerialized.typeNode
  /\ rootPath = <<>>
  /\ result = NoResult
  /\ formatted = Undefined
  /\ ExtensionIdle

Serialize ==
  /\ calls < MaxCalls
  /\ \E type \in DOMAIN checker, options \in Options :
       LET r == serialize(checker, type, Undefined, Undefined, options, cache)
       IN /\ request' = [type |-> type, options |-> options]
          /\ serialized' = r.serialized
          /\ cache' = r.cache
  /\ calls' = calls + 1
  /\ UNCHANGED <<checker, pc, expected, actual, rootPath, result, formatted>>
  /\ UNCHANGED extensionVars

SerializerNext == Serialize

SerializerSpec == SerializerInit /\ [][SerializerNext]_vars

(* ---------------------------------------------------------------------- *)
(* differ.formatPath(path) as a state machine: one call on a TypeDiffer    *)
(* ---------------------------------------------------------------------- *)
MaxPathLen == 3

PathSegments == {Str("user"), Str("profile"), Str("email"), Str("[0]")}
Paths == SeqsUpTo(PathSegments, MaxPathLen)

FormatPathInit ==
  /\ pc = "ready"
  /\ rootPath \in Paths
  /\ formatted = Undefined
  /\ expected = NoSerialized.typeNode
  /\ actual = NoSerialized.typeNode
  /\ result = NoResult
  /\ checker = <<>>
  /\ cache = EmptyCache
  /\ request = NoRequest
  /\ serialized = NoSerialized
  /\ calls = 0
  /\ ExtensionIdle

\* the call differ.formatPath(path): TypeDiffer has no such method, the
\* member read gives undefined and calling it throws a TypeError, so nothing
\* is returned
FormatPath ==
  /\ pc = "ready"
  /\ "formatPath" \notin Methods
  /\ pc' = "TypeError"
  /\ formatted' = Undefined
  /\ UNCHANGED <<expected, actual, rootPath, result>>
  /\ UNCHANGED serializerVars
  /\ UNCHANGED extensionVars

FormatPathNext == FormatPath

FormatPathSpec == FormatPathInit /\ [][FormatPathNext]_vars

(* ---------------------------------------------------------------------- *)
(* Serializer and differ composed: two types of one program are serialized *)
(* and the two trees are compared                                          *)
(* ---------------------------------------------------------------------- *)
\* serialize(type) without options, and the options getTypeFromOwnService
\* serializes with
ProviderOptions ==
  [hasMaxDepth |-> TRUE, maxDepth |-> DefaultMaxDepth, includeSignatures |-> TRUE,
   expandAliases |-> FALSE]
ComposedOptions == {NoRequest.options, ProviderOptions}

ComposedInit ==
  /\ pc = "expected"
  /\ checker \in Checkers
  /\ expected = NoSerialized.typeNode
  /\ actual = NoSerialized.typeNode
  /\ rootPath = <<>>
  /\ result = NoResult
  /\ cache = EmptyCache
  /\ request = NoRequest
  /\ serialized = NoSerialized
  /\ calls = 0
  /\ formatted = Undefined
  /\ ExtensionIdle

\* a call of serialize whose typeNode becomes the first argument of compare
SerializeExpected ==
  /\ pc = "expected"
  /\ \E type \in DOMAIN checker, options \in ComposedOptions :
       LET r == serialize(checker, type, Undefined, Undefined, options, cache)
       IN /\ request' = [type |-> type, options |-> options]
          /\ serialized' = r.serialized
          /\ cache' = r.cache
          /\ expected' = r.serialized.typeNode
          /\ operands' = <<type>>
  /\ calls' = calls + 1
  /\ pc' = "actual"
  /\ UNCHANGED <<checker, actual, rootPath, result, formatted>>
  /\ UNCHANGED <<programCache, now, documents, lookup>>

\* a call of serialize, on the same instance and with the same options,
\* whose typeNode becomes the second argument of compare
SerializeActual ==
  /\ pc = "actual"
  /\ \E type \in DOMAIN checker :
       LET r == serialize(checker, type, Undefined, Undefined, request.options, cache)
       IN /\ request' = [type |-> type, options |-> request.options]
          /\ serialized' = r.serialized
          /\ cache' = r.cache
          /\ actual' = r.serialized.typeNode
          /\ operands' = Append(operands, type)
  /\ calls' = calls + 1
  /\ pc' = "ready"
  /\ UNCHANGED <<checker, expected, rootPath, result, formatted>>
  /\ UNCHANGED <<programCache, now, documents, lookup>>

ComposedNext == SerializeExpected \/ SerializeActual \/ Compare

ComposedSpec == ComposedInit /\ [][ComposedNext]_vars

(* ---------------------------------------------------------------------- *)
(* The provider: getTypeAtPosition calls, edits of the documents, time     *)
(* ---------------------------------------------------------------------- *)
CACHE_TTL == 5000

MaxTicks == 2

Files == {"a.ts", "b.ts"}

\* the texts a document can hold, of one line each, with their length and
\* the nodes of their source file that the lookups reach: the innermost node
\* whose text, from getStart() up to getEnd(), holds an offset, and the
\* handle of the type the program's checker gives there: the identifier v,
\* the keywords number (of radius) and string (of label) of Shape, and the
\* identifier label of Deep
Node(start, end, type) == [start |-> start, end |-> end, type |-> type]
Sources ==
  << [text |-> "declare const v: Person; interface Person { age: number; name: string }",
      length |-> 71,
      nodes |-> {Node(14, 15, "Person")}],
     [text |-> "declare const v: Shape; interface Shape { kind: 'circle'; radius: number; readonly id: string; label?: string }",
      length |-> 111,
      nodes |-> {Node(14, 15, "Shape"), Node(66, 72, "number"), Node(103, 109, "string")}],
     [text |-> "declare const v: Deep; interface Deep { name: string; a: { b: { c: { label: string; tags: string[] } } } }",
      length |-> 106,
      nodes |-> {Node(14, 15, "Deep"), Node(69, 74, "string")}] >>
Texts == {Sources[i].text : i \in 1..Len(Sources)}
SourceOf(content) == Sources[CHOOSE i \in 1..Len(Sources) : Sources[i].text = content]

\* the positions looked up: the identifier v, and the line after the text
ValuePosition == [line |-> 0, character |-> 14]
Positions == {ValuePosition, [line |-> 1, character |-> 0]}

\* document.offsetAt(position) of a document of one line: the character,
\* no more than the length of the text, and the length of the text for a
\* position after the line
offsetAt(content, position) ==
  LET length == SourceOf(content).length
  IN IF position.line = 0 /\ position.character < length THEN position.character
     ELSE length

\* the checker of the programs createProgram makes of the texts, with
\* strict: true: Objects, but for the optional property label of Shape, whose
\* type is the union of undefined and string
ObjectsStrict ==
  [h \in DOMAIN Objects \cup {"undefined", "string | undefined"} |->
     CASE h = "undefined" -> UndefinedType
       [] h = "string | undefined" ->
            [NoType EXCEPT !.flags = {"Union"}, !.types = <<"undefined", "string">>,
                           !.text = "string | undefined"]
       [] h = "Shape" ->
            ObjectType("Shape", << Symbol("kind", "circle", FALSE, FALSE),
                                   Symbol("radius", "number", FALSE, FALSE),
                                   Symbol("id", "string", FALSE, TRUE),
                                   Symbol("label", "string | undefined", TRUE, FALSE) >>)
       [] OTHER -> Objects[h]]

\* the time between two events: just below the time to live, or just it
Delays == {CACHE_TTL - 1, CACHE_TTL}

\* createProgram: the program of the content, or null after an exception
createProgram(fileName, content, succeeds) ==
  IF succeeds THEN Program(content) ELSE NullProgram

\* cleanupCache(now): the entries as old as the time to live are deleted
cleanupCache(programs, t) ==
  [f \in {g \in DOMAIN programs : ~(t - programs[g].timestamp >= CACHE_TTL)} |-> programs[f]]

\* getOrCreateProgram(fileName, content) at time t
getOrCreateProgram(programs, fileName, content, t, succeeds) ==
  IF fileName \in DOMAIN programs /\ t - programs[fileName].timestamp < CACHE_TTL
  THEN [programCache |-> programs, program |-> programs[fileName].program]
  ELSE LET program == createProgram(fileName, content, succeeds)
       IN IF program.created
          THEN [programCache |->
                  cleanupCache(MapSet(programs, fileName,
                                      [program |-> program, timestamp |-> t]), t),
                program |-> program]
          ELSE [programCache |-> programs, program |-> program]

\* findNodeAtPosition(sourceFile, offset) on the source file of a program:
\* no node at or after the end of the program's text, else the innermost
\* node that holds the offset
NoNode == Node(0, 0, "")
findNodeAtPosition(program, offset) ==
  LET sourceFile == SourceOf(program.content)
  IN IF offset >= sourceFile.length THEN NoNode
     ELSE CHOOSE node \in sourceFile.nodes : node.start <= offset /\ offset < node.end

\* checker.getTypeAtLocation(node): the handle of the type at the node
getTypeAtLocation(program, node) == node.type

\* getTypeFromOwnService(document, position) at time t: the offset of the
\* position in the text the document has now is looked up in the source
\* file of the program, which is the cached one when there is one; null
\* without a program or without a node at the offset, else the type the
\* program's checker has there, serialized by a new TypeSerializer together
\* with the file name and the line and character of the offset in the
\* program's source file, which has one line
getTypeFromOwnService(programs, fileName, content, position, t, succeeds) ==
  LET offset == offsetAt(content, position)
      got == getOrCreateProgram(programs, fileName, content, t, succeeds)
      node == IF got.program.created THEN findNodeAtPosition(got.program, offset)
              ELSE NoNode
      lineAndChar == [line |-> 0, character |-> offset]
  IN [programCache |-> got.programCache,
      program |-> got.program,
      type |-> IF node = NoNode THEN NoSerialized
               ELSE serialize(ObjectsStrict, getTypeAtLocation(got.program, node),
                              Str(fileName), Obj(lineAndChar),
                              ProviderOptions, EmptyCache).serialized]

ProviderInit ==
  /\ pc = "idle"
  /\ operands = <<>>
  /\ programCache = <<>>
  /\ now = 0
  /\ documents \in [Files -> Texts]
  /\ lookup = NoLookup
  /\ expected = NoSerialized.typeNode
  /\ actual = NoSerialized.typeNode
  /\ rootPath = <<>>
  /\ result = NoResult
  /\ checker = <<>>
  /\ cache = EmptyCache
  /\ request = NoRequest
  /\ serialized = NoSerialized
  /\ calls = 0
  /\ formatted = Undefined

\* getTypeAtPosition(document, position) for one of the documents
GetTypeAtPosition ==
  /\ \E fileName \in Files, position \in Positions, succeeds \in BOOLEAN :
       LET r == getTypeFromOwnService(programCache, fileName, documents[fileName],
                                      position, now, succeeds)
       IN /\ programCache' = r.programCache
          /\ lookup' = [fileName |-> fileName, content |-> documents[fileName],
                        position |-> position, program |-> r.program, type |-> r.type]
  /\ UNCHANGED <<now, documents, operands, formatted>>
  /\ UNCHANGED differVars
  /\ UNCHANGED serializerVars

\* the user changes the text of a document
EditDocument ==
  /\ \E fileName \in Files, text \in Texts :
       /\ text # documents[fileName]
       /\ documents' = [documents EXCEPT ![fileName] = text]
  /\ UNCHANGED <<now, programCache, lookup, operands, formatted>>
  /\ UNCHANGED differVars
  /\ UNCHANGED serializerVars

\* time passes
Tick ==
  /\ \E delay \in Delays :
       /\ now + delay <= MaxTicks * CACHE_TTL
       /\ now' = now + delay
  /\ UNCHANGED <<documents, programCache, lookup, operands, formatted>>
  /\ UNCHANGED differVars
  /\ UNCHANGED serializerVars

ProviderNext == GetTypeAtPosition \/ EditDocument \/ Tick

ProviderSpec == ProviderInit /\ [][ProviderNext]_vars

(* ---------------------------------------------------------------------- *)
(* Properties of the differ                                                *)
(* ---------------------------------------------------------------------- *)
Done == pc = "done"

IsPrefix(p, q) == Len(p) <= Len(q) /\ SubSeq(q, 1, Len(p)) = p

\* the diffs of the result whose path is p or extends p, in order
RECURSIVE Select(_, _)
Select(diffs, p) ==
  IF diffs = <<>> THEN <<>>
  ELSE (IF IsPrefix(p, Head(diffs).path) THEN <<Head(diffs)>> ELSE <<>>)
       \o Select(Tail(diffs), p)

\* what a node is rendered to: its name, else its literal value, else its
\* kind (an empty name counts as no name)
Rendering(node) ==
  IF node.name.t = "string" /\ node.name.v # "" THEN node.name.v
  ELSE IF node.value.t # "undefined" THEN node.value.v
  ELSE node.kind

ChildrenOf(node) == IF node.children.t = "undefined" THEN <<>> ELSE node.children.v
NamesOf(node) == {ChildrenOf(node)[i].name : i \in 1..Len(ChildrenOf(node))}
Named1(node, name) == {i \in 1..Len(ChildrenOf(node)) : ChildrenOf(node)[i].name = name}
Min(a, b) == IF a <= b THEN a ELSE b

\* no object node of the tree has two children of the same name
RECURSIVE NoDuplicateProps(_)
NoDuplicateProps(node) ==
  /\ node.kind = "object" =>
       \A i, j \in 1..Len(ChildrenOf(node)) :
         ChildrenOf(node)[i].name = ChildrenOf(node)[j].name => i = j
  /\ \A i \in 1..Len(ChildrenOf(node)) : NoDuplicateProps(ChildrenOf(node)[i])

\* the pairs of nodes the lock-step walk reaches, each with its path: the
\* roots, the same-named properties of two objects (the last of each name),
\* and the same-index children of two arrays, tuples or generics
RECURSIVE Reached(_, _, _)
Reached(e, a, p) ==
  {[e |-> e, a |-> a, path |-> p]} \cup
  IF e.kind # a.kind THEN {}
  ELSE IF e.kind = "object"
  THEN UNION {Reached(ChildrenOf(e)[CHOOSE i \in Named1(e, n) : \A j \in Named1(e, n) : j <= i],
                      ChildrenOf(a)[CHOOSE i \in Named1(a, n) : \A j \in Named1(a, n) : j <= i],
                      Append(p, n)) : n \in NamesOf(e) \cap NamesOf(a)}
  ELSE IF e.kind \in {"array", "tuple", "generic"}
  THEN UNION {Reached(ChildrenOf(e)[i], ChildrenOf(a)[i], Append(p, Str(IndexSegments[i])))
                : i \in 1..Min(Len(ChildrenOf(e)), Len(ChildrenOf(a)))}
  ELSE {}

\* C1: comparing a tree without duplicate property names with itself gives
\* an empty diffs sequence and hasChanges = FALSE
C1_Reflexivity ==
  (Done /\ expected = actual /\ NoDuplicateProps(expected))
    => (result.diffs = <<>> /\ result.hasChanges = FALSE)

\* C2: a reached pair of nodes of different kinds gets exactly one diff, a
\* TypeMismatch at the pair's path carrying the renderings of the two nodes,
\* and no diff has a path that extends that path; object{a} against
\* primitive "string" gives one diff at the path compare was called with
C2_KindMismatchHaltsDescent ==
  Done =>
    /\ \A v \in Reached(expected, actual, rootPath) :
         v.e.kind # v.a.kind =>
           LET under == Select(result.diffs, v.path)
           IN /\ Len(under) = 1
              /\ under[1].path = v.path
              /\ under[1].kind = DiffKind.TypeMismatch
              /\ under[1].expected = Str(Rendering(v.e))
              /\ under[1].actual = Str(Rendering(v.a))
    /\ <<expected, actual>> = ObjectAgainstPrimitive =>
         /\ Len(result.diffs) = 1
         /\ result.diffs[1].path = rootPath
         /\ result.diffs[1].kind = DiffKind.TypeMismatch

\* C2 witness: below the root, an object and an array that both have
\* children were reached
C2_Witness ==
  /\ Done
  /\ \E v \in Reached(expected, actual, rootPath) :
       /\ Len(v.path) > 0
       /\ v.e.kind = "object" /\ v.a.kind = "array"
       /\ Len(ChildrenOf(v.e)) > 0 /\ Len(ChildrenOf(v.a)) > 0

\* the strings the children of a node are rendered to
RenderedChildren(node) == {Rendering(ChildrenOf(node)[i]) : i \in 1..Len(ChildrenOf(node))}

\* the diffs of the given kind at exactly path p whose field f is the string s
DiffsWith(diffs, kind, p, f, s) ==
  {i \in 1..Len(diffs) : diffs[i].kind = kind /\ diffs[i].path = p /\ diffs[i][f] = Str(s)}

\* C3: for two unions (or two intersections) the diffs are one Missing per
\* string rendered only on the expected side, one Extra per string rendered
\* only on the actual side, and nothing else
C3_CompositeSetDiff ==
  (Done /\ expected.kind = actual.kind /\ expected.kind \in {"union", "intersection"}) =>
    LET onlyExpected == RenderedChildren(expected) \ RenderedChildren(actual)
        onlyActual == RenderedChildren(actual) \ RenderedChildren(expected)
    IN /\ \A s \in onlyExpected :
            Cardinality(DiffsWith(result.diffs, DiffKind.Missing, rootPath, "expected", s)) = 1
       /\ \A s \in onlyActual :
            Cardinality(DiffsWith(result.diffs, DiffKind.Extra, rootPath, "actual", s)) = 1
       /\ Len(result.diffs) = Cardinality(onlyExpected) + Cardinality(onlyActual)

\* the child of an object node that carries the name n
PropOf(node, n) ==
  ChildrenOf(node)[CHOOSE i \in Named1(node, n) : \A j \in Named1(node, n) : j <= i]

DistinctNames(node) ==
  \A i, j \in 1..Len(ChildrenOf(node)) :
    ChildrenOf(node)[i].name = ChildrenOf(node)[j].name => i = j

\* the diffs among ds whose path is exactly p
At(ds, p) == {i \in 1..Len(ds) : ds[i].path = p}

\* C4: for two reached objects with distinct property names whose same-named
\* properties are identical, the diffs below their path are exactly one
\* Missing per expected-only property that is not optional and one Extra per
\* actual-only property, optional or not; object{id, name} against object{id}
\* gives the single diff Missing at ["name"] and summary.missing = 1
C4_ObjectPropertyPresence ==
  Done =>
    /\ \A v \in Reached(expected, actual, rootPath) :
         ( /\ v.e.kind = "object" /\ v.a.kind = "object"
           /\ DistinctNames(v.e) /\ DistinctNames(v.a)
           /\ \A n \in NamesOf(v.e) \cap NamesOf(v.a) : PropOf(v.e, n) = PropOf(v.a, n) )
         => LET under == Select(result.diffs, v.path)
                missing == {n \in NamesOf(v.e) \ NamesOf(v.a) : ~PropOf(v.e, n).optional}
                extra == NamesOf(v.a) \ NamesOf(v.e)
            IN /\ \A n \in missing :
                    /\ Cardinality(At(under, Append(v.path, n))) = 1
                    /\ \A i \in At(under, Append(v.path, n)) :
                         under[i].kind = DiffKind.Missing
               /\ \A n \in extra :
                    /\ Cardinality(At(under, Append(v.path, n))) = 1
                    /\ \A i \in At(under, Append(v.path, n)) :
                         under[i].kind = DiffKind.Extra
               /\ Len(under) = Cardinality(missing) + Cardinality(extra)
    /\ <<expected, actual>> = TestMissingProperty =>
         /\ Len(result.diffs) = 1
         /\ result.diffs[1].path = Append(rootPath, Str("name"))
         /\ result.diffs[1].kind = DiffKind.Missing
         /\ result.summary.missing = 1

\* C5: an expected property that is optional and has no namesake in actual
\* gets no diff at all, at any depth
C5_OptionalAbsenceSilent ==
  Done =>
    \A v \in Reached(expected, actual, rootPath) :
      (v.e.kind = "object" /\ v.a.kind = "object") =>
        \A n \in NamesOf(v.e) \ NamesOf(v.a) :
          (\A i \in Named1(v.e, n) : ChildrenOf(v.e)[i].optional)
            => Select(result.diffs, Append(v.path, n)) = <<>>

\* C5 witness: below the root an object with an optional property was
\* compared with an object that lacks it, and other diffs were reported
C5_Witness ==
  /\ Done
  /\ result.hasChanges
  /\ \E v \in Reached(expected, actual, rootPath) :
       /\ Len(v.path) > 0
       /\ v.e.kind = "object" /\ v.a.kind = "object"
       /\ \E n \in NamesOf(v.e) \ NamesOf(v.a) :
            \A i \in Named1(v.e, n) : ChildrenOf(v.e)[i].optional

\* C6: for two reached arrays (or two tuples) and every index i below the
\* longer length: a child on the expected side only gets exactly one diff,
\* Missing at path + ["[i]"] with the child's rendering as expected; a child
\* on the actual side only gets exactly one diff, Extra at path + ["[i]"];
\* two children are compared with each other at path + ["[i]"];
\* tuple[string, number] against tuple[string] gives the single diff Missing
\* at ["[1]"] with expected "number"
C6_ArrayPositional ==
  Done =>
    /\ \A v \in Reached(expected, actual, rootPath) :
         (v.e.kind = v.a.kind /\ v.e.kind \in {"array", "tuple"}) =>
           \A i \in 1..Max(Len(ChildrenOf(v.e)), Len(ChildrenOf(v.a))) :
             LET at == Append(v.path, Str(IndexSegments[i]))
                 under == Select(result.diffs, at)
             IN IF i > Len(ChildrenOf(v.a))
                THEN /\ Len(under) = 1
                     /\ under[1].path = at
                     /\ under[1].kind = DiffKind.Missing
                     /\ under[1].expected = Str(Rendering(ChildrenOf(v.e)[i]))
                ELSE IF i > Len(ChildrenOf(v.e))
                THEN /\ Len(under) = 1
                     /\ under[1].path = at
                     /\ under[1].kind = DiffKind.Extra
                ELSE under = compareNodes(ChildrenOf(v.e)[i], ChildrenOf(v.a)[i], at)
    /\ <<expected, actual>> = TestTupleLength =>
         /\ Len(result.diffs) = 1
         /\ result.diffs[1].path = Append(rootPath, Str("[1]"))
         /\ result.diffs[1].kind = DiffKind.Missing
         /\ result.diffs[1].expected = Str("number")

\* C6 witness: below the root two arrays of different lengths were reached
\* whose common children differ
C6_Witness ==
  /\ Done
  /\ \E v \in Reached(expected, actual, rootPath) :
       /\ Len(v.path) > 0
       /\ v.e.kind = "array" /\ v.a.kind = "array"
       /\ Len(ChildrenOf(v.e)) # Len(ChildrenOf(v.a))
       /\ Len(ChildrenOf(v.e)) > 0 /\ Len(ChildrenOf(v.a)) > 0
       /\ ChildrenOf(v.e)[1] # ChildrenOf(v.a)[1]

\* C8: hasChanges is true exactly when the diffs sequence is not empty
C8_HasChangesIffDiffs ==
  Done => (result.hasChanges <=> result.diffs # <<>>)

\* C8 witness: a result whose only diffs are mismatches
C8_Witness ==
  /\ Done
  /\ result.diffs # <<>>
  /\ \A i \in 1..Len(result.diffs) :
       result.diffs[i].kind \in {DiffKind.TypeMismatch, DiffKind.ValueMismatch}

\* the number of diffs of the result whose kind is among kinds
NumberOf(kinds) == Cardinality({i \in 1..Len(result.diffs) : result.diffs[i].kind \in kinds})

\* C9: summary.missing, summary.extra and summary.mismatch are the numbers of
\* Missing diffs, of Extra diffs, and of TypeMismatch plus ValueMismatch
\* diffs; object{id, name, age} against object{id, email} gives 2, 1, 0
C9_SummaryCounts ==
  Done =>
    /\ result.summary.missing = NumberOf({DiffKind.Missing})
    /\ result.summary.extra = NumberOf({DiffKind.Extra})
    /\ result.summary.mismatch =
         NumberOf({DiffKind.TypeMismatch}) + NumberOf({DiffKind.ValueMismatch})
    /\ <<expected, actual>> = TestSummary =>
         result.summary = [missing |-> 2, extra |-> 1, mismatch |-> 0]

\* C9 witness: a result with a ValueMismatch and a Missing diff
C9_Witness ==
  /\ Done
  /\ NumberOf({DiffKind.ValueMismatch}) > 0
  /\ NumberOf({DiffKind.Missing}) > 0

\* C10 as stated: with the default path, a diff with an empty path is the
\* TypeMismatch of a kind mismatch between the two roots
C10_EmptyPathOnlyKindMismatch ==
  (Done /\ rootPath = <<>>) =>
    \A i \in 1..Len(result.diffs) :
      result.diffs[i].path = <<>> =>
        (expected.kind # actual.kind /\ result.diffs[i].kind = DiffKind.TypeMismatch)

\* C10 amended: with the default path, a diff with an empty path is a diff
\* about the two roots themselves: the TypeMismatch of their kind mismatch,
\* of the name mismatch of two primitive, unknown or generic roots, or of the
\* length mismatch of two union or intersection roots, or the ValueMismatch
\* of two literal roots whose values are not strictly equal; there is at
\* most one, it comes first, and every
\* Missing or Extra diff has a non-empty path
C10_EmptyPathOnlyRootDiff ==
  (Done /\ rootPath = <<>>) =>
    \A i \in 1..Len(result.diffs) :
      LET d == result.diffs[i]
      IN /\ d.kind \in {DiffKind.Missing, DiffKind.Extra} => d.path # <<>>
         /\ d.path = <<>> =>
              /\ i = 1
              /\ \/ expected.kind # actual.kind /\ d.kind = DiffKind.TypeMismatch
                 \/ /\ expected.kind = actual.kind
                    /\ expected.kind \in {"primitive", "unknown", "generic"}
                    /\ expected.name # actual.name
                    /\ d.kind = DiffKind.TypeMismatch
                 \/ /\ expected.kind = actual.kind
                    /\ expected.kind \in {"union", "intersection"}
                    /\ Len(ChildrenOf(expected)) # Len(ChildrenOf(actual))
                    /\ d.kind = DiffKind.TypeMismatch
                 \/ /\ expected.kind = "literal" /\ actual.kind = "literal"
                    /\ ~StrictEq(expected.value, actual.value)
                    /\ d.kind = DiffKind.ValueMismatch

\* C10 witness: two generic roots of different names and different numbers
\* of type arguments, giving a diff at the empty path and diffs below it
C10_Witness ==
  /\ Done /\ rootPath = <<>>
  /\ expected.kind = "generic" /\ actual.kind = "generic"
  /\ Len(result.diffs) > 1
  /\ result.diffs[1].path = <<>>

\* C11: two function nodes are compared like two arrays, child by child in
\* order, so function nodes with different numbers of children give
\* hasChanges = TRUE; function[id, return] against function[id, name, return]
\* does
C11_FunctionPositional ==
  (Done /\ expected.kind = "function" /\ actual.kind = "function") =>
    /\ result.diffs = compareArrays(expected, actual, rootPath)
    /\ Len(ChildrenOf(expected)) # Len(ChildrenOf(actual)) => result.hasChanges
    /\ <<expected, actual>> = TestFunctionSignature => result.hasChanges

\* for two reached generic nodes there is a diff at their own path exactly
\* when their names differ, and it is one TypeMismatch carrying the two
\* names; in either case the type arguments are compared by position as
\* array elements are: Missing or Extra at path + ["[i]"] for an argument
\* on one side only, the comparison of the two arguments at that path
\* otherwise
GenericByPosition(v) ==
  LET under == Select(result.diffs, v.path)
      here == At(under, v.path)
      es == ChildrenOf(v.e)
      as == ChildrenOf(v.a)
  IN /\ IF v.e.name # v.a.name
        THEN /\ here = {1}
             /\ under[1].kind = DiffKind.TypeMismatch
             /\ under[1].expected = v.e.name
             /\ under[1].actual = v.a.name
        ELSE here = {}
     /\ \A i \in 1..Max(Len(es), Len(as)) :
          LET at == Append(v.path, Str(IndexSegments[i]))
              below == Select(result.diffs, at)
          IN IF i > Len(as)
             THEN /\ Len(below) = 1
                  /\ below[1].path = at
                  /\ below[1].kind = DiffKind.Missing
             ELSE IF i > Len(es)
             THEN /\ Len(below) = 1
                  /\ below[1].path = at
                  /\ below[1].kind = DiffKind.Extra
             ELSE below = compareNodes(es[i], as[i], at)

\* the two generics have two type arguments each, those of the one exchanged
\* in the other
Exchanged(v) ==
  /\ Len(ChildrenOf(v.e)) = 2 /\ Len(ChildrenOf(v.a)) = 2
  /\ ChildrenOf(v.e)[1] = ChildrenOf(v.a)[2]
  /\ ChildrenOf(v.e)[2] = ChildrenOf(v.a)[1]

\* C12 as stated: two reached generic nodes get one TypeMismatch with both
\* names at their path exactly when their names differ, their type arguments
\* are compared by position as array elements are, and two different type
\* arguments exchanged between the sides give diffs at the arguments
C12_GenericComparison ==
  Done =>
    \A v \in Reached(expected, actual, rootPath) :
      (v.e.kind = "generic" /\ v.a.kind = "generic") =>
        /\ GenericByPosition(v)
        /\ (Exchanged(v) /\ ChildrenOf(v.e)[1] # ChildrenOf(v.e)[2])
             => \/ Select(result.diffs, Append(v.path, Str("[0]"))) # <<>>
                \/ Select(result.diffs, Append(v.path, Str("[1]"))) # <<>>

\* C12 amended: name and arguments as above; two type arguments exchanged
\* between the sides give diffs at the arguments exactly when comparing the
\* one with the other, in one order or the other, gives diffs: at both
\* indexes when they have different kinds or are two primitive or two
\* unknown nodes of different names, at neither when they are two primitives
\* of one name or two function, conditional, template or indexed nodes
C12_GenericArguments ==
  Done =>
    \A v \in Reached(expected, actual, rootPath) :
      (v.e.kind = "generic" /\ v.a.kind = "generic") =>
        /\ GenericByPosition(v)
        /\ Exchanged(v) =>
             LET x == ChildrenOf(v.e)[1]
                 y == ChildrenOf(v.e)[2]
                 first == Select(result.diffs, Append(v.path, Str("[0]")))
                 second == Select(result.diffs, Append(v.path, Str("[1]")))
             IN /\ (first # <<>> \/ second # <<>>)
                      <=> (compareNodes(x, y, <<>>) # <<>> \/ compareNodes(y, x, <<>>) # <<>>)
                /\ ( \/ x.kind # y.kind
                     \/ x.kind = y.kind /\ x.kind \in {"primitive", "unknown"}
                        /\ x.name # y.name )
                     => first # <<>> /\ second # <<>>
                /\ ( \/ x.kind = y.kind
                        /\ x.kind \in {"function", "conditional", "template", "indexed"}
                     \/ x.kind = "primitive" /\ y.kind = "primitive" /\ x.name = y.name )
                     => first = <<>> /\ second = <<>>

\* C12 witness: two generics of different names whose two type arguments, of
\* different kinds, are exchanged
C12_Witness ==
  /\ Done
  /\ expected.kind = "generic" /\ actual.kind = "generic"
  /\ expected.name # actual.name
  /\ Len(ChildrenOf(expected)) = 2 /\ Len(ChildrenOf(actual)) = 2
  /\ ChildrenOf(expected)[1] = ChildrenOf(actual)[2]
  /\ ChildrenOf(expected)[2] = ChildrenOf(actual)[1]
  /\ ChildrenOf(expected)[1].kind # ChildrenOf(expected)[2].kind
  /\ Len(result.diffs) = 3

\* C13: two reached nodes that are both primitive or both unknown get exactly
\* one diff when their names differ, a TypeMismatch at their path carrying
\* the two names, and none when the names are equal; two reached literals
\* get exactly one diff when their values are not strictly equal, a
\* ValueMismatch at their path carrying the two values coerced to strings,
\* and none otherwise
C13_LeafComparison ==
  Done =>
    \A v \in Reached(expected, actual, rootPath) :
      LET under == Select(result.diffs, v.path)
      IN /\ (v.e.kind = v.a.kind /\ v.e.kind \in {"primitive", "unknown"}) =>
              IF v.e.name # v.a.name
              THEN /\ Len(under) = 1
                   /\ under[1].path = v.path
                   /\ under[1].kind = DiffKind.TypeMismatch
                   /\ under[1].expected = v.e.name
                   /\ under[1].actual = v.a.name
              ELSE under = <<>>
         /\ (v.e.kind = "literal" /\ v.a.kind = "literal") =>
              IF ~StrictEq(v.e.value, v.a.value)
              THEN /\ Len(under) = 1
                   /\ under[1].path = v.path
                   /\ under[1].kind = DiffKind.ValueMismatch
                   /\ under[1].expected = Str(v.e.value.v)
                   /\ under[1].actual = Str(v.a.value.v)
              ELSE under = <<>>

\* C13 witness: the number 42 was compared with the string "42"
C13_Witness ==
  /\ Done
  /\ expected.kind = "literal" /\ actual.kind = "literal"
  /\ expected.value = Num("42") /\ actual.value = Str("42")
  /\ Len(result.diffs) = 1
  /\ result.diffs[1].expected = result.diffs[1].actual

\* the orders the n children of a node can be listed in
Orders(n) == {f \in [1..n -> 1..n] : \A i, j \in 1..n : f[i] = f[j] => i = j}
Permuted(node, f) ==
  [node EXCEPT !.children = Arr([i \in 1..Len(ChildrenOf(node)) |-> ChildrenOf(node)[f[i]]])]

\* a sequence of diffs as a set, without the messages
DiffSet(diffs) ==
  {[path |-> diffs[i].path, kind |-> diffs[i].kind, expected |-> diffs[i].expected,
    actual |-> diffs[i].actual] : i \in 1..Len(diffs)}

\* C14: for two reached objects with distinct property names on each side,
\* listing the children of either in any other order leaves the set of
\* diffs (path, kind, expected, actual) at and below their path unchanged;
\* two objects with the same properties in different orders give no diffs
C14_PropertyOrderIrrelevant ==
  Done =>
    \A v \in Reached(expected, actual, rootPath) :
      ( /\ v.e.kind = "object" /\ v.a.kind = "object"
        /\ DistinctNames(v.e) /\ DistinctNames(v.a) ) =>
        /\ \A f \in Orders(Len(ChildrenOf(v.e))),
              g \in Orders(Len(ChildrenOf(v.a))) :
             DiffSet(compareNodes(Permuted(v.e, f), Permuted(v.a, g), v.path))
               = DiffSet(Select(result.diffs, v.path))
        /\ (\E f \in Orders(Len(ChildrenOf(v.e))) :
              v.a.children = Permuted(v.e, f).children)
             => Select(result.diffs, v.path) = <<>>

\* the kinds whose children compare reads
ChildKinds == {"object", "array", "tuple", "union", "intersection", "generic"}

\* the tree with every absent children field of such a node set to []
RECURSIVE Filled(_)
Filled(node) ==
  IF node.kind \in ChildKinds
  THEN [node EXCEPT !.children =
          Arr([i \in 1..Len(ChildrenOf(node)) |-> Filled(ChildrenOf(node)[i])])]
  ELSE node

DiffKinds == {DiffKind.Missing, DiffKind.Extra, DiffKind.TypeMismatch, DiffKind.ValueMismatch}

\* C15: compare returns a DiffResult for every pair of trees, and the result
\* is the one it returns when the absent children fields of expected, of
\* actual or of both are replaced by empty lists
C15_AbsentChildrenAsEmpty ==
  Done =>
    /\ result.hasChanges \in BOOLEAN
    /\ result.summary \in [missing : Nat, extra : Nat, mismatch : Nat]
    /\ \A i \in 1..Len(result.diffs) :
         /\ result.diffs[i].kind \in DiffKinds
         /\ IsPrefix(rootPath, result.diffs[i].path)
    /\ compare(Filled(expected), actual, rootPath) = result
    /\ compare(expected, Filled(actual), rootPath) = result
    /\ compare(Filled(expected), Filled(actual), rootPath) = result

\* C15 witness: an array without a children field was compared with an array
\* that has elements
C15_Witness ==
  /\ Done
  /\ expected.kind = "array" /\ actual.kind = "array"
  /\ expected.children = Undefined
  /\ Len(ChildrenOf(actual)) > 0
  /\ result.summary.extra = Len(ChildrenOf(actual))

\* the segments of a path joined with "."
RECURSIVE Dotted(_)
Dotted(path) ==
  IF Len(path) = 0 THEN ""
  ELSE IF Len(path) = 1 THEN path[1].v
  ELSE path[1].v \o "." \o Dotted(Tail(path))

\* C17: once differ.formatPath(path) has been called it has returned "root"
\* for the empty path and otherwise the segments joined with ".": [] gives
\* "root", ["user"] gives "user", ["user", "profile", "email"] gives
\* "user.profile.email"
C17_FormatPath ==
  pc # "ready" =>
    /\ formatted = IF rootPath = <<>> THEN Str("root") ELSE Str(Dotted(rootPath))
    /\ rootPath = <<Str("user")>> => formatted = Str("user")
    /\ rootPath = <<Str("user"), Str("profile"), Str("email")>>
         => formatted = Str("user.profile.email")

\* where the diff d, reported for the pair v of objects, stands in the order
\* "expected's properties, then actual's own": the position in expected of
\* the property the diff is about, or, for a property of actual only, the
\* number of expected's children plus its position in actual
Rank(v, d) ==
  LET n == d.path[Len(v.path) + 1]
  IN IF Named1(v.e, n) # {}
     THEN CHOOSE i \in Named1(v.e, n) : TRUE
     ELSE Len(ChildrenOf(v.e)) + (CHOOSE i \in Named1(v.a, n) : TRUE)

\* C24: among the diffs reported for a reached pair of objects with distinct
\* property names, those about a property of expected come in the order of
\* expected's properties and before every diff about a property of actual
\* only; the latter are Extra diffs in the order of actual's properties;
\* object{id, name, age} against object{id, email} gives Missing name,
\* Missing age, Extra email in this order
C24_EmissionOrder ==
  Done =>
    /\ \A v \in Reached(expected, actual, rootPath) :
         ( /\ v.e.kind = "object" /\ v.a.kind = "object"
           /\ DistinctNames(v.e) /\ DistinctNames(v.a) ) =>
           LET under == Select(result.diffs, v.path)
           IN /\ \A i \in 1..Len(under) :
                   /\ Len(under[i].path) > Len(v.path)
                   /\ Named1(v.e, under[i].path[Len(v.path) + 1]) = {}
                        => under[i].kind = DiffKind.Extra
              /\ \A i, j \in 1..Len(under) :
                   i < j => Rank(v, under[i]) <= Rank(v, under[j])
    /\ <<expected, actual>> = TestSummary =>
         /\ Len(result.diffs) = 3
         /\ result.diffs[1].path = Append(rootPath, Str("name"))
         /\ result.diffs[2].path = Append(rootPath, Str("age"))
         /\ result.diffs[3].path = Append(rootPath, Str("email"))
         /\ result.diffs[3].kind = DiffKind.Extra

\* C24 witness: two objects with distinct property names were compared;
\* expected's first property is missing in actual, its second differs from
\* actual's property of that name, which actual lists before a property of
\* its own
C24_Witness ==
  /\ Done
  /\ expected.kind = "object" /\ actual.kind = "object"
  /\ DistinctNames(expected) /\ DistinctNames(actual)
  /\ Len(ChildrenOf(expected)) = 2 /\ Len(ChildrenOf(actual)) = 2
  /\ Len(result.diffs) = 3
  /\ result.diffs[1].kind = DiffKind.Missing
  /\ result.diffs[2].kind \in {DiffKind.TypeMismatch, DiffKind.ValueMismatch}
  /\ result.diffs[3].kind = DiffKind.Extra

\* C28: every diff of a result is a Missing, Extra, TypeMismatch or
\* ValueMismatch diff, and the three numbers of the summary add up to the
\* length of diffs
C28_FourKindsOnly ==
  Done =>
    /\ \A i \in 1..Len(result.diffs) : result.diffs[i].kind \in DiffKinds
    /\ result.summary.missing + result.summary.extra + result.summary.mismatch
         = Len(result.diffs)

\* C28 witness: a result with a kind mismatch below the root next to a
\* Missing and an Extra diff
C28_Witness ==
  /\ Done
  /\ \E i, j, k \in 1..Len(result.diffs) :
       /\ result.diffs[i].kind = DiffKind.TypeMismatch
       /\ result.diffs[j].kind = DiffKind.Missing
       /\ result.diffs[k].kind = DiffKind.Extra
  /\ result.summary.mismatch > 0 /\ result.summary.missing > 0 /\ result.summary.extra > 0

\* the tree with the optional and readonly flags of every node cleared
RECURSIVE Unflagged(_)
Unflagged(node) ==
  [node EXCEPT !.optional = FALSE, !.readonly = FALSE,
               !.children = IF node.children = Undefined THEN Undefined
                            ELSE Arr([i \in 1..Len(node.children.v) |->
                                        Unflagged(node.children.v[i])])]

\* C29: two reached nodes that differ in optional and readonly flags only,
\* their own or those of their descendants, get no diff at or below their
\* path
C29_FlagsIgnored ==
  Done =>
    \A v \in Reached(expected, actual, rootPath) :
      Unflagged(v.e) = Unflagged(v.a) => Select(result.diffs, v.path) = <<>>

(* ---------------------------------------------------------------------- *)
(* Properties of the serializer                                            *)
(* ---------------------------------------------------------------------- *)
Markers == {Str("[Circular]"), Str("...")}

\* some node strictly below the given node carries a marker as its name
RECURSIVE HasMarkerBelow(_)
HasMarkerBelow(node) ==
  \E i \in 1..Len(ChildrenOf(node)) :
    \/ ChildrenOf(node)[i].name \in Markers
    \/ HasMarkerBelow(ChildrenOf(node)[i])

\* the latest call serialized the linked-list type with maxDepth = 5
LinkedListCall ==
  /\ calls > 0
  /\ checker \in {LinkedList, LinkedListStrict}
  /\ request.type = "Node"
  /\ request.options.hasMaxDepth /\ request.options.maxDepth = 5

\* C7: serializing Node = {value: string; next?: Node} with maxDepth = 5
\* returns an object with children named value and next, and some
\* descendant is named "[Circular]" or "..."
C7_LinkedListMarker ==
  LinkedListCall =>
    /\ serialized.typeNode.kind = "object"
    /\ Str("value") \in NamesOf(serialized.typeNode)
    /\ Str("next") \in NamesOf(serialized.typeNode)
    /\ HasMarkerBelow(serialized.typeNode)

\* the maxDepth the latest call ran with
MaxDepthOf(options) == IF options.hasMaxDepth THEN options.maxDepth ELSE DefaultMaxDepth

IsCallable(chk, type) == Len(chk[type].callSignatures) > 0
IsAlias(chk, type) == chk[type].aliasSymbol # Undefined

\* C16: with includeSignatures = FALSE a callable type is returned without
\* children and with includeSignatures = TRUE with its parameters and return
\* node as children; with expandAliases = FALSE an alias type is returned
\* without children and with expandAliases = TRUE with its structure
C16_OptionsChangeOutput ==
  calls > 0 =>
    /\ IsCallable(checker, request.type) =>
         (request.options.includeSignatures <=> ChildrenOf(serialized.typeNode) # <<>>)
    /\ (IsAlias(checker, request.type) /\ ~IsCallable(checker, request.type)) =>
         (request.options.expandAliases <=> ChildrenOf(serialized.typeNode) # <<>>)

\* no node of the tree lies deeper than limit, the node itself being at
\* depth d, and the nodes at depth limit are childless and of kind unknown
RECURSIVE DepthBounded(_, _, _)
DepthBounded(node, d, limit) ==
  /\ d <= limit
  /\ d = limit => (node.kind = "unknown" /\ node.children = Undefined)
  /\ \A i \in 1..Len(ChildrenOf(node)) : DepthBounded(ChildrenOf(node)[i], d + 1, limit)

\* the number of levels below the node
RECURSIVE Height(_)
Height(node) ==
  IF ChildrenOf(node) = <<>> THEN 0
  ELSE 1 + (CHOOSE h \in {Height(ChildrenOf(node)[i]) : i \in 1..Len(ChildrenOf(node))} :
              \A i \in 1..Len(ChildrenOf(node)) : Height(ChildrenOf(node)[i]) <= h)

\* C18: serializeType called with a depth beyond maxDepth returns
\* {kind unknown, name "..."} and leaves the cache as it is, whatever the
\* type and the cache; the tree a call of serialize returns has no node
\* deeper than maxDepth + 1, and its nodes at depth maxDepth + 1 are
\* childless nodes of kind unknown
C18_HardDepthBound ==
  calls > 0 =>
    LET maxDepth == MaxDepthOf(request.options)
    IN /\ \A type \in DOMAIN checker, c \in {EmptyCache, cache} :
            serializeType(checker, type, maxDepth + 1, maxDepth, c)
              = [cache |-> c, node |-> Plain("unknown", Str("..."), Undefined, Undefined)]
       /\ DepthBounded(serialized.typeNode, 0, maxDepth + 1)

\* C18 witness: a call with maxDepth = 2 on a cyclic type returned a tree
\* with nodes at depth 3
C18_Witness ==
  /\ calls > 0
  /\ checker = LinkedList /\ request.type = "Node"
  /\ request.options.hasMaxDepth /\ request.options.maxDepth = 2
  /\ Height(serialized.typeNode) = 3

\* the node reached from the given node through the children of the given
\* names, the node itself when a name is missing on the way
RECURSIVE Follow(_, _)
Follow(node, names) ==
  IF names = <<>> \/ Named1(node, Str(Head(names))) = {} THEN node
  ELSE Follow(PropOf(node, Str(Head(names))), Tail(names))

\* C19: after a call the depth recorded for the serialized type is 0, the
\* depth of its first encounter; in the linked list, where Node is met
\* again at depths 1, 2 and 3, the encounters at depths 1 and 2 are expanded
\* and the one at depth 3 is returned as a childless node of kind unknown
C19_FirstSeenDepth ==
  calls > 0 =>
    /\ request.type \in DOMAIN cache.depth
    /\ cache.depth[request.type] = 0
    /\ (checker = LinkedList /\ request.type = "Node" /\ MaxDepthOf(request.options) >= 3) =>
         /\ Follow(serialized.typeNode, <<"next">>).kind = "object"
         /\ Follow(serialized.typeNode, <<"next", "next">>).kind = "object"
         /\ Follow(serialized.typeNode, <<"next", "next", "next">>).kind = "unknown"
         /\ Height(serialized.typeNode) = 3

\* C20: the tree a call returns is the tree a new TypeSerializer returns for
\* the same type and options, whatever calls were made before
C20_CacheScopedToCall ==
  calls > 0 =>
    serialized.typeNode =
      serialize(checker, request.type, Undefined, Undefined, request.options,
                EmptyCache).serialized.typeNode

\* C20 witness: the second call on an instance, on a type whose tree has
\* members three levels down, with types recorded by the call
C20_Witness ==
  /\ calls = 2
  /\ checker = Aliases /\ request.type = "Team"
  /\ Height(serialized.typeNode) = 3
  /\ cache.seen = {"Team", "User", "Handler", "string", "number"}

\* the tests in the order of the classification, each with the kind it gives
Classification(t) ==
  << [test |-> "Union" \in t.flags, kind |-> "union"],
     [test |-> "Intersection" \in t.flags, kind |-> "intersection"],
     [test |-> t.flags \cap {"StringLiteral", "NumberLiteral", "BooleanLiteral"} # {},
      kind |-> "literal"],
     [test |-> t.flags \cap {"String", "Number", "Boolean", "Null", "Undefined", "Void",
                             "Any", "Never"} # {},
      kind |-> "primitive"],
     [test |-> "Unknown" \in t.flags, kind |-> "unknown"],
     [test |-> t.isArray, kind |-> "array"],
     [test |-> t.isTuple, kind |-> "tuple"],
     [test |-> Len(t.callSignatures) > 0, kind |-> "function"],
     [test |-> "Conditional" \in t.flags, kind |-> "conditional"],
     [test |-> "TemplateLiteral" \in t.flags, kind |-> "template"],
     [test |-> "IndexedAccess" \in t.flags, kind |-> "indexed"],
     [test |-> Len(t.properties) > 0, kind |-> "object"],
     [test |-> t.aliasSymbol # Undefined /\ Len(OrEmpty(t.aliasTypeArguments)) > 0,
      kind |-> "generic"],
     [test |-> TRUE, kind |-> "unknown"] >>

\* C21: the node returned for a type has the kind of the earliest test of
\* the classification the type passes; the unknown primitive is named
\* "unknown" and the fallback is named by the checker's rendering; a type
\* with a call signature and properties gives a function, a type with
\* properties and alias type arguments an object
C21_FirstMatchWins ==
  calls > 0 =>
    LET t == checker[request.type]
        node == serialized.typeNode
        order == Classification(t)
        first == CHOOSE i \in 1..Len(order) :
                   order[i].test /\ \A j \in 1..(i - 1) : ~order[j].test
    IN /\ node.kind = order[first].kind
       /\ first = 5 => node.name = Str("unknown")
       /\ first = Len(order) => node.name = Str(t.text)
       /\ (first = 8 /\ Len(t.properties) > 0) => node.kind = "function"
       /\ (first = 12 /\ Len(OrEmpty(t.aliasTypeArguments)) > 0) => node.kind = "object"

\* C21 witness: a type with two call signatures and a property was
\* serialized to a function
C21_Witness ==
  /\ calls > 0
  /\ Len(checker[request.type].callSignatures) = 2
  /\ Len(checker[request.type].properties) > 0
  /\ checker[request.type].flags = {}
  /\ serialized.typeNode.kind = "function"

\* the number of the earliest test of the classification the type passes,
\* and the kind that test gives
FirstPassing(t) ==
  CHOOSE i \in 1..Len(Classification(t)) :
    Classification(t)[i].test /\ \A j \in 1..(i - 1) : ~Classification(t)[j].test
KindOf(t) == Classification(t)[FirstPassing(t)].kind

\* C22: a type serialized as a function whose first call signature has k
\* parameters gives a node of kind function with k + 1 children: one per
\* parameter of the first signature, in order, with the parameter's name and
\* optional flag, true exactly when the parameter is declared with a question
\* token (and, when maxDepth >= 1, the kind of the parameter's type), then
\* one child named "return" with the kind of the return type; the other
\* signatures add nothing
C22_FunctionChildren ==
  (calls > 0 /\ FirstPassing(checker[request.type]) = 8) =>
    LET signature == checker[request.type].callSignatures[1]
        k == Len(signature.parameters)
        node == serialized.typeNode
        children == OrEmpty(node.children)
        expanded == MaxDepthOf(request.options) >= 1
    IN /\ node.kind = "function"
       /\ Len(children) = k + 1
       /\ \A i \in 1..k :
            /\ children[i].name = Str(signature.parameters[i].name)
            /\ children[i].optional = signature.parameters[i].questionToken
            /\ expanded => children[i].kind = KindOf(checker[signature.parameters[i].type])
       /\ children[k + 1].name = Str("return")
       /\ expanded => children[k + 1].kind = KindOf(checker[signature.returnType])

\* C23: a type serialized as an object has one child per property, in the
\* checker's order; the child has the kind, value and children of the
\* serialized property type, the property's name in place of that node's own
\* name, and the property's optional and readonly flags
C23_ObjectChildren ==
  (calls > 0 /\ FirstPassing(checker[request.type]) = 12) =>
    LET properties == checker[request.type].properties
        node == serialized.typeNode
        children == OrEmpty(node.children)
        limit == MaxDepthOf(request.options)
    IN /\ node.kind = "object"
       /\ Len(children) = Len(properties)
       /\ \A i \in 1..Len(properties) :
            LET own == serializeType(checker, properties[i].type, 1, limit, EmptyCache).node
            IN /\ children[i].name = Str(properties[i].name)
               /\ children[i].optional = properties[i].optional
               /\ children[i].readonly = properties[i].readonly
               /\ children[i].kind = own.kind
               /\ children[i].value = own.value
               /\ (own.children = Undefined) = (children[i].children = Undefined)
               /\ Len(OrEmpty(children[i].children)) = Len(OrEmpty(own.children))

\* C23 witness: an object with a literal-typed property, a readonly property
\* and an optional property was serialized, and the literal's own name was
\* replaced by the property name
C23_Witness ==
  /\ calls > 0
  /\ FirstPassing(checker[request.type]) = 12
  /\ \E i, j, k \in 1..Len(OrEmpty(serialized.typeNode.children)) :
       LET children == serialized.typeNode.children.v
       IN /\ children[i].kind = "literal" /\ children[i].value = Str("circle")
          /\ children[i].name = Str("kind")
          /\ children[j].readonly /\ children[j].name = Str("id")
          /\ children[j].kind = "primitive"
          /\ children[k].optional

\* the node or one of its descendants carries the name
RECURSIVE HasName(_, _)
HasName(node, name) ==
  \/ node.name = name
  \/ \E i \in 1..Len(ChildrenOf(node)) : HasName(ChildrenOf(node)[i], name)

\* C26: the types of Objects have no cycle, so no tree serialized from them
\* has a node named "[Circular]"; in Deep the property label: string at
\* depth 4 is serialized like the property name: string at depth 1
C26_CircularOnlyForCycles ==
  (calls > 0 /\ checker = Objects) =>
    /\ ~HasName(serialized.typeNode, Str("[Circular]"))
    /\ (request.type = "Deep" /\ MaxDepthOf(request.options) >= 4) =>
         Follow(serialized.typeNode, <<"a", "b", "c", "label">>).kind
           = Follow(serialized.typeNode, <<"name">>).kind

\* every node at depth limit + 1 below the root is named "..."
RECURSIVE CutOffsNamed(_, _, _)
CutOffsNamed(node, d, limit) ==
  /\ d = limit + 1 => node.name = Str("...")
  /\ \A i \in 1..Len(ChildrenOf(node)) : CutOffsNamed(ChildrenOf(node)[i], d + 1, limit)

\* C27: the nodes at depth maxDepth + 1, where serializeType returned the
\* depth placeholder, are named "...", and the property label of Deep, where
\* it returned the circular placeholder, is named "[Circular]"
C27_CutOffsVisible ==
  calls > 0 =>
    /\ CutOffsNamed(serialized.typeNode, 0, MaxDepthOf(request.options))
    /\ (checker = Objects /\ request.type = "Deep" /\ MaxDepthOf(request.options) >= 4) =>
         Follow(serialized.typeNode, <<"a", "b", "c", "label">>).name = Str("[Circular]")

(* ---------------------------------------------------------------------- *)
(* Properties of the composition and of the provider                       *)
(* ---------------------------------------------------------------------- *)
\* the two types serialized are objects with a property of one name that is
\* the primitive string in one and the primitive number in the other
ChangedProperties ==
  IF Len(operands) < 2 THEN {}
  ELSE LET t1 == checker[operands[1]]
           t2 == checker[operands[2]]
       IN IF FirstPassing(t1) # 12 \/ FirstPassing(t2) # 12 THEN {}
          ELSE {t1.properties[i].name : i \in
                  {i \in 1..Len(t1.properties) :
                     \E j \in 1..Len(t2.properties) :
                       /\ t1.properties[i].name = t2.properties[j].name
                       /\ {checker[t1.properties[i].type].flags,
                           checker[t2.properties[j].type].flags}
                            = {{"String"}, {"Number"}}}}

\* C25: when the two types serialized are objects with a property of the
\* same name that is string in one and number in the other, comparing their
\* trees gives hasChanges = TRUE and a mismatch diff at the path [that name]
C25_PropertyTypeChangeDetected ==
  Done =>
    \A name \in ChangedProperties :
      /\ result.hasChanges
      /\ \E i \in 1..Len(result.diffs) :
           /\ result.diffs[i].path = <<Str(name)>>
           /\ result.diffs[i].kind \in {DiffKind.TypeMismatch, DiffKind.ValueMismatch}

\* C30: the program that answered the latest getTypeAtPosition call was
\* created from the text the document had at that call, and the type
\* returned is the type a provider without cached programs returns for that
\* text
C30_ProgramFromCurrentText ==
  (lookup.fileName # "" /\ lookup.program.created) =>
    /\ lookup.program.content = lookup.content
    /\ lookup.type = getTypeFromOwnService(<<>>, lookup.fileName, lookup.content,
                                           lookup.position, 0, TRUE).type

====
